---- MODULE Spec2Model ----
(***************************************************************************)
(* A model of the kernel's synchronisation syscalls (os/src/sync/mutex.rs, *)
(* os/src/syscall/sync.rs) and of its mmap/munmap path                      *)
(* (os/src/syscall/process.rs).                                             *)
(*                                                                          *)
(* The kernel runs on one hart and kernel code is never preempted, so each *)
(* action is one uninterrupted stretch of kernel code: from a trap (or     *)
(* from the point where a task is switched back in) up to the return to    *)
(* user mode or to the next context switch.                                *)
(***************************************************************************)
EXTENDS Integers, Sequences, FiniteSets, TLC

(***************************************************************************)
(* Bounds of the model.                                                    *)
(***************************************************************************)
NumTasks == 2        \* threads of the one process
MaxMutexes == 2      \* mutexes the process creates
MaxSems == 4         \* semaphores the process creates
MaxCount == 1        \* the largest count a semaphore is raised to
WinPages == 2        \* pages of the user window mmap and munmap work in
NumFrames == 3       \* free physical frames at the start
MaxCalls == 3        \* memory syscalls the task issues
MaxProcs == 3        \* task control blocks alive at a time
MaxProcCalls == 3    \* process syscalls the tasks issue
MaxFds == 3          \* the longest file-descriptor table
MaxInodes == 4       \* disk inodes, the root directory included
MaxDirents == 3      \* entries the root directory grows to
MaxNlink == 2        \* the largest link count linkat is asked to exceed

Tasks == 1..NumTasks

\* pids of the processes; the init task has pid 0
Pids == 0..(MaxProcs - 1)
NoTask == -1         \* the idle control flow: no task is Running

\* the sentinel a lock call returns, -0xDEAD
DEAD == -57005

VARIABLES
    task_status,            \* TaskStatus of each thread
    ready_queue,            \* the scheduler's FIFO of Ready threads
    current,                \* the Running thread, or NoTask
    pc,                     \* where each thread stands inside the kernel
    mutex_list,             \* ProcessControlBlockInner::mutex_list
    enable_deadlock_detect, \* ProcessControlBlockInner flag
    deadlocked,             \* ProcessControlBlockInner flag
    panicked,               \* the kernel has panicked
    holder,                 \* per mutex: the thread whose lock returned 0 and that
                            \* has not seen the mutex unlocked since, or NoTask
    track_holders,          \* whether holder is recorded in this specification
    last,                   \* the kernel event of the latest step
    semaphore_list,         \* ProcessControlBlockInner::semaphore_list
    areas,                  \* MemorySet::areas of the calling task
    page_table,             \* MemorySet::page_table of the calling task
    frame_allocator,        \* FRAME_ALLOCATOR
    syscall_times,          \* TaskControlBlockInner::syscall_times of each task
    children,               \* TaskControlBlockInner::children of each task
    parent,                 \* TaskControlBlockInner::parent of each task
    exit_code,              \* TaskControlBlockInner::exit_code of each task
    trap_x10,               \* x[10] of each task's saved trap context
    pid_allocator,          \* PID_ALLOCATOR
    user_out,               \* what the latest syscall stored in user memory
    fd_table,               \* TaskControlBlockInner::fd_table of each task
    root_dir,               \* the directory entries of ROOT_INODE, in order
    inodes,                 \* the disk inodes: nlink_num and size of each
    detector                \* the ResourceAllocation of the process

\* the address space and what the memory syscalls touch besides
memVars == << areas, page_table, frame_allocator, syscall_times >>

\* the process tree
procVars == << children, parent, exit_code, trap_x10, pid_allocator >>

\* what neither the synchronisation nor the memory syscalls touch
\* the files
fsVars == << fd_table, root_dir, inodes >>

otherVars == << procVars, user_out, fsVars, detector >>

vars == << task_status, ready_queue, current, pc, mutex_list,
           enable_deadlock_detect, deadlocked, panicked, holder, track_holders,
           last, semaphore_list, memVars, otherVars >>

\* what no mutex syscall touches
outsideMutex == << semaphore_list, memVars, otherVars >>

schedVars == << task_status, ready_queue, current >>

(***************************************************************************)
(* Bookkeeping of what a step was: the syscall, its caller, its argument   *)
(* and the value it returned (returned = FALSE when the caller was         *)
(* switched out, or the kernel panicked, before the syscall returned).     *)
(***************************************************************************)
Event(op, t, id, returned, ret) ==
    [op |-> op, t |-> t, id |-> id, returned |-> returned, ret |-> ret]

InUser == [at |-> "user", id |-> 0]

Range(q) == {q[i] : i \in 1..Len(q)}

\* record that mutex id is now held by t (NoTask: by nobody)
note_holder(id, t) ==
    /\ holder' = IF track_holders THEN [holder EXCEPT ![id + 1] = t] ELSE holder
    /\ track_holders' = track_holders

holderVars == << holder, track_holders >>

keep_holders == UNCHANGED holderVars

(***************************************************************************)
(* The scheduler (os/src/task; summarised in the specification, 4.5).      *)
(***************************************************************************)
\* the scheduler loop: pop the head of the ready queue and switch into it
run_next(rq, st) ==
    /\ ready_queue' = IF rq = << >> THEN rq ELSE Tail(rq)
    /\ current' = IF rq = << >> THEN NoTask ELSE Head(rq)
    /\ task_status' = IF rq = << >> THEN st ELSE [st EXCEPT ![Head(rq)] = "Running"]

suspend_current_and_run_next(t) ==
    run_next(Append(ready_queue, t), [task_status EXCEPT ![t] = "Ready"])

block_current_and_run_next(t) ==
    run_next(ready_queue, [task_status EXCEPT ![t] = "Blocked"])

\* mark Ready, push to the tail; the caller keeps running
wakeup_task(w) ==
    /\ ready_queue' = Append(ready_queue, w)
    /\ task_status' = [task_status EXCEPT ![w] = "Ready"]
    /\ current' = current

(***************************************************************************)
(* Mutexes.                                                                 *)
(***************************************************************************)
MutexSpin_new == [kind |-> "spin", locked |-> FALSE, wait_queue |-> << >>]

MutexBlocking_new == [kind |-> "blocking", locked |-> FALSE, wait_queue |-> << >>]

\* mutex_list[mutex_id] of the code; TLA+ sequences start at 1
MutexAt(id) == mutex_list[id + 1]

\* `mutex_list[mutex_id].as_ref().unwrap()` succeeds
MutexExists(id) == id < Len(mutex_list)

\* thread u holds mutex m: its lock returned 0 and the mutex is still locked
Holds(u, m) == holder[m + 1] = u /\ MutexAt(m).locked

\* mutant: the early exit is never taken
exit_now_never(detect) == FALSE

\* mutant: the test of the flag is inverted
exit_now_inverted(detect) == detect = FALSE

\* exit_now of both lock functions
exit_now(detect) == detect = TRUE

\* mutant: locked is cleared also when a waiter is woken
BlockingUnlockInner_clears(mx) ==
    IF mx.wait_queue # << >>
    THEN [mx EXCEPT !.wait_queue = Tail(@), !.locked = FALSE]
    ELSE [mx EXCEPT !.locked = FALSE]

\* the inner state of a blocking mutex after unlock: pop the head waiter
\* (ownership transfer), else clear locked
BlockingUnlockInner(mx) ==
    IF mx.wait_queue # << >>
    THEN [mx EXCEPT !.wait_queue = Tail(@)]
    ELSE [mx EXCEPT !.locked = FALSE]

\* mutant: the spin lock is taken without a test of locked
MutexSpin_lock_no_test(t, id) ==
    /\ mutex_list' = [mutex_list EXCEPT ![id + 1].locked = TRUE]
    /\ last' = Event("lock", t, id, TRUE, 0)
    /\ pc' = [pc EXCEPT ![t] = InUser]
    /\ note_holder(id, t)
    /\ UNCHANGED << schedVars, deadlocked >>

\* one pass of MutexSpin::lock's loop body, entered by a call or by the
\* `continue` after the task is switched back in
MutexSpin_lock(t, id) ==
    IF MutexAt(id).locked
    THEN /\ deadlocked' = TRUE
         /\ IF exit_now(enable_deadlock_detect)
            THEN /\ last' = Event("lock", t, id, TRUE, DEAD)
                 /\ pc' = [pc EXCEPT ![t] = InUser]
                 /\ UNCHANGED << schedVars, mutex_list, holderVars >>
            ELSE /\ suspend_current_and_run_next(t)
                 /\ pc' = [pc EXCEPT ![t] = [at |-> "spin", id |-> id]]
                 /\ last' = Event("lock", t, id, FALSE, 0)
                 /\ UNCHANGED << mutex_list, holderVars >>
    ELSE /\ mutex_list' = [mutex_list EXCEPT ![id + 1].locked = TRUE]
         /\ last' = Event("lock", t, id, TRUE, 0)
         /\ pc' = [pc EXCEPT ![t] = InUser]
         /\ note_holder(id, t)
         /\ UNCHANGED << schedVars, deadlocked >>

MutexSpin_unlock(t, id) ==
    /\ mutex_list' = [mutex_list EXCEPT ![id + 1].locked = FALSE]
    /\ deadlocked' = FALSE
    /\ UNCHANGED schedVars

\* mutant: the caller is queued before the early exit is considered
MutexBlocking_lock_queues_first(t, id) ==
    IF MutexAt(id).locked
    THEN /\ deadlocked' = TRUE
         /\ mutex_list' = [mutex_list EXCEPT ![id + 1].wait_queue = Append(@, t)]
         /\ IF exit_now(enable_deadlock_detect)
            THEN /\ last' = Event("lock", t, id, TRUE, DEAD)
                 /\ UNCHANGED << schedVars, pc, holderVars >>
            ELSE /\ block_current_and_run_next(t)
                 /\ pc' = [pc EXCEPT ![t] = [at |-> "blocked", id |-> id]]
                 /\ last' = Event("lock", t, id, FALSE, 0)
                 /\ keep_holders
    ELSE /\ mutex_list' = [mutex_list EXCEPT ![id + 1].locked = TRUE]
         /\ last' = Event("lock", t, id, TRUE, 0)
         /\ note_holder(id, t)
         /\ UNCHANGED << schedVars, deadlocked, pc >>

\* mutant: the caller is queued at the front of the wait queue
MutexBlocking_lock_push_front(t, id) ==
    IF MutexAt(id).locked
    THEN /\ deadlocked' = TRUE
         /\ IF exit_now(enable_deadlock_detect)
            THEN /\ last' = Event("lock", t, id, TRUE, DEAD)
                 /\ UNCHANGED << schedVars, mutex_list, pc, holderVars >>
            ELSE /\ mutex_list' = [mutex_list EXCEPT ![id + 1].wait_queue = << t >> \o @]
                 /\ block_current_and_run_next(t)
                 /\ pc' = [pc EXCEPT ![t] = [at |-> "blocked", id |-> id]]
                 /\ last' = Event("lock", t, id, FALSE, 0)
                 /\ keep_holders
    ELSE /\ mutex_list' = [mutex_list EXCEPT ![id + 1].locked = TRUE]
         /\ last' = Event("lock", t, id, TRUE, 0)
         /\ note_holder(id, t)
         /\ UNCHANGED << schedVars, deadlocked, pc >>

MutexBlocking_lock(t, id) ==
    IF MutexAt(id).locked
    THEN /\ deadlocked' = TRUE
         /\ IF exit_now(enable_deadlock_detect)
            THEN /\ last' = Event("lock", t, id, TRUE, DEAD)
                 /\ UNCHANGED << schedVars, mutex_list, pc, holderVars >>
            ELSE /\ mutex_list' = [mutex_list EXCEPT ![id + 1].wait_queue = Append(@, t)]
                 /\ block_current_and_run_next(t)
                 /\ pc' = [pc EXCEPT ![t] = [at |-> "blocked", id |-> id]]
                 /\ last' = Event("lock", t, id, FALSE, 0)
                 /\ keep_holders
    ELSE /\ mutex_list' = [mutex_list EXCEPT ![id + 1].locked = TRUE]
         /\ last' = Event("lock", t, id, TRUE, 0)
         /\ note_holder(id, t)
         /\ UNCHANGED << schedVars, deadlocked, pc >>

\* mutant: the woken thread tests locked again, as the spin lock does
MutexBlocking_lock_resume_retests(t, id) ==
    /\ MutexBlocking_lock(t, id)
    /\ pc[t].at = "blocked"

\* after block_current_and_run_next returns: lock falls through to `0`
MutexBlocking_lock_resume(t, id) ==
    /\ last' = Event("lock", t, id, TRUE, 0)
    /\ pc' = [pc EXCEPT ![t] = InUser]
    /\ note_holder(id, t)
    /\ UNCHANGED << schedVars, mutex_list, deadlocked >>

\* MutexBlocking::unlock after its assertion
MutexBlocking_unlock(t, id) ==
    /\ deadlocked' = FALSE
    /\ mutex_list' = [mutex_list EXCEPT ![id + 1] = BlockingUnlockInner(@)]
    /\ IF MutexAt(id).wait_queue # << >>
       THEN wakeup_task(Head(MutexAt(id).wait_queue))
       ELSE UNCHANGED schedVars

(***************************************************************************)
(* The syscalls.  A syscall is issued by the Running thread from user      *)
(* mode.                                                                   *)
(***************************************************************************)
CanTrap(t) == ~panicked /\ current = t /\ pc[t].at = "user"

Panic(op, t, id) ==
    /\ panicked' = TRUE
    /\ last' = Event(op, t, id, FALSE, 0)
    /\ UNCHANGED << schedVars, pc, mutex_list, enable_deadlock_detect, deadlocked,
                    holderVars >>

\* the slot sys_mutex_create fills: the first None slot, else a new one.
\* No syscall empties a slot, so it is always the new one.
sys_mutex_create(t, blocking) ==
    /\ CanTrap(t)
    /\ UNCHANGED outsideMutex
    /\ Len(mutex_list) < MaxMutexes
    /\ mutex_list' = Append(mutex_list, IF blocking THEN MutexBlocking_new ELSE MutexSpin_new)
    /\ holder' = IF track_holders THEN Append(holder, NoTask) ELSE holder
    /\ track_holders' = track_holders
    /\ last' = Event("mutex_create", t, Len(mutex_list), TRUE, Len(mutex_list))
    /\ UNCHANGED << schedVars, pc, enable_deadlock_detect, deadlocked, panicked >>

sys_mutex_lock(t, mutex_id) ==
    /\ CanTrap(t)
    /\ UNCHANGED outsideMutex
    /\ IF ~MutexExists(mutex_id)
       THEN Panic("lock", t, mutex_id)
       ELSE /\ IF MutexAt(mutex_id).kind = "spin"
               THEN MutexSpin_lock(t, mutex_id)
               ELSE MutexBlocking_lock(t, mutex_id)
            /\ UNCHANGED << enable_deadlock_detect, panicked >>

\* a thread switched back in inside lock carries on where it left
LockContinue(t) ==
    /\ ~panicked
    /\ current = t
    /\ pc[t].at \in {"spin", "blocked"}
    /\ UNCHANGED outsideMutex
    /\ IF pc[t].at = "spin"
       THEN MutexSpin_lock(t, pc[t].id)
       ELSE MutexBlocking_lock_resume(t, pc[t].id)
    /\ UNCHANGED << enable_deadlock_detect, panicked >>

sys_mutex_unlock(t, mutex_id) ==
    /\ CanTrap(t)
    /\ UNCHANGED outsideMutex
    /\ IF ~MutexExists(mutex_id)
       THEN Panic("unlock", t, mutex_id)
       ELSE IF MutexAt(mutex_id).kind = "spin"
       THEN /\ MutexSpin_unlock(t, mutex_id)
            /\ last' = Event("unlock", t, mutex_id, TRUE, 0)
            /\ note_holder(mutex_id, NoTask)
            /\ UNCHANGED << pc, enable_deadlock_detect, panicked >>
       ELSE IF ~MutexAt(mutex_id).locked
       THEN Panic("unlock", t, mutex_id)
       ELSE /\ MutexBlocking_unlock(t, mutex_id)
            /\ last' = Event("unlock", t, mutex_id, TRUE, 0)
            /\ note_holder(mutex_id, NoTask)
            /\ UNCHANGED << pc, enable_deadlock_detect, panicked >>

sys_enable_deadlock_detect(t, enabled) ==
    /\ CanTrap(t)
    /\ UNCHANGED outsideMutex
    /\ enable_deadlock_detect' = (enabled > 0)
    /\ last' = Event("enable_deadlock_detect", t, enabled, TRUE, 0)
    /\ UNCHANGED << schedVars, pc, mutex_list, deadlocked, panicked, holderVars >>

\* the timer interrupt takes the hart from the thread
Yield(t) ==
    /\ CanTrap(t)
    /\ UNCHANGED outsideMutex
    /\ suspend_current_and_run_next(t)
    /\ last' = Event("yield", t, 0, TRUE, 0)
    /\ UNCHANGED << pc, mutex_list, enable_deadlock_detect, deadlocked, panicked,
                    holderVars >>

(***************************************************************************)
(* Memory: the frame allocator, the page table and the area list of the    *)
(* calling task, in a window of user pages starting at 0x10000000.         *)
(***************************************************************************)
PAGE_SIZE == 4096

\* entries of one leaf page table
PTES_PER_TABLE == 512

WinBase == 268435456 \div PAGE_SIZE

VPNs == WinBase..(WinBase + WinPages - 1)

\* the frames the allocator hands out are numbered from here; the frames
\* below were handed out while the task was loaded
FrameBase == 8

\* the two pages of the task's image that hold the structures it passes to
\* the kernel, and the frames the loader mapped them to
DataBase == 65536 \div PAGE_SIZE

DataVPNs == {DataBase, DataBase + 1}

DataFrame(vpn) == IF vpn = DataBase THEN 2 ELSE 5

VirtAddr_floor(va) == va \div PAGE_SIZE

VirtAddr_ceil(va) == (va + PAGE_SIZE - 1) \div PAGE_SIZE

page_offset(va) == va % PAGE_SIZE

LeafTable(vpn) == vpn \div PTES_PER_TABLE

\* a zeroed page-table entry
PTE_empty == [valid |-> FALSE, ppn |-> 0, flags |-> {}]

PTE_new(ppn, flags) == [valid |-> TRUE, ppn |-> ppn, flags |-> flags]

\* PageTable::find_pte: None when the leaf table of vpn was never created
find_pte(pt, vpn) ==
    IF LeafTable(vpn) \in pt.tables
    THEN [some |-> TRUE, pte |-> pt.pte[vpn]]
    ELSE [some |-> FALSE, pte |-> PTE_empty]

\* PageTable::translate
translate(pt, vpn) == find_pte(pt, vpn)

\* StackFrameAllocator::alloc: a recycled frame first, else the next fresh one
frame_alloc(fa) ==
    IF fa.recycled # << >>
    THEN [ok |-> TRUE, ppn |-> fa.recycled[Len(fa.recycled)],
          fa |-> [fa EXCEPT !.recycled = SubSeq(@, 1, Len(@) - 1)]]
    ELSE IF fa.current = fa.end
    THEN [ok |-> FALSE, ppn |-> 0, fa |-> fa]
    ELSE [ok |-> TRUE, ppn |-> fa.current, fa |-> [fa EXCEPT !.current = @ + 1]]

\* StackFrameAllocator::dealloc
frame_dealloc(fa, ppn) == [fa EXCEPT !.recycled = Append(@, ppn)]

\* the frames the allocator can still hand out, as sys_mmap counts them
FreeFrames(fa) == fa.end - fa.current + Len(fa.recycled)

\* MapArea::map over [vpn, r): a frame per page, and a frame for the leaf
\* table when PageTable::map has to create it
RECURSIVE MapArea_map(_, _, _, _, _)
MapArea_map(vpn, r, flags, pt, fa) ==
    IF vpn >= r
    THEN [ok |-> TRUE, pt |-> pt, fa |-> fa]
    ELSE LET page == frame_alloc(fa)
             table == IF LeafTable(vpn) \in pt.tables
                      THEN [ok |-> TRUE, ppn |-> 0, fa |-> page.fa]
                      ELSE frame_alloc(page.fa)
         IN  IF ~page.ok \/ ~table.ok
             THEN [ok |-> FALSE, pt |-> pt, fa |-> fa]
             ELSE MapArea_map(vpn + 1, r, flags,
                      [tables |-> pt.tables \cup {LeafTable(vpn)},
                       pte |-> [pt.pte EXCEPT ![vpn] = PTE_new(page.ppn, flags)]],
                      table.fa)

\* MapArea::unmap over [vpn, r): clear the entry, drop the frame
RECURSIVE MapArea_unmap(_, _, _, _)
MapArea_unmap(vpn, r, pt, fa) ==
    IF vpn >= r
    THEN [pt |-> pt, fa |-> fa]
    ELSE MapArea_unmap(vpn + 1, r,
             [pt EXCEPT !.pte[vpn] = PTE_empty],
             frame_dealloc(fa, pt.pte[vpn].ppn))

MapArea_new(start_va, end_va, perm) ==
    [l |-> VirtAddr_floor(start_va), r |-> VirtAddr_ceil(end_va), perm |-> perm]

InitMemory ==
    /\ areas = << >>
    /\ page_table = [tables |-> {LeafTable(DataBase)},
                     pte |-> [v \in VPNs \cup DataVPNs |->
                                IF v \in DataVPNs
                                THEN PTE_new(DataFrame(v), {"R", "W", "U"})
                                ELSE PTE_empty]]
    /\ frame_allocator = [current |-> FrameBase, end |-> FrameBase + NumFrames,
                          recycled |-> << >>]
    /\ syscall_times = [t \in Tasks \cup Pids |-> [i \in 0..14 |-> 0]]

\* the syscalls of process.rs count themselves in syscall_times first
counted(k) == [syscall_times EXCEPT ![current][k] = @ + 1]

count_syscall(k) == syscall_times' = counted(k)

CallsMade == syscall_times[current][11] + syscall_times[current][8]

\* what no memory syscall touches
outsideMem == << schedVars, pc, mutex_list, enable_deadlock_detect, deadlocked,
                 holderVars, semaphore_list, otherVars >>

num_pages_of(len) == (len + PAGE_SIZE - 1) \div PAGE_SIZE

\* sys_mmap's permissions: U, and X, R, W from the bits of port
mmap_permissions(port) ==
    {"U"} \cup (IF port \div 4 = 1 THEN {"X"} ELSE {})
          \cup (IF port % 2 = 1 THEN {"R"} ELSE {})
          \cup (IF (port % 4) \div 2 = 1 THEN {"W"} ELSE {})

\* sys_mmap's loop over the pages asked for: some page has a valid entry
mmap_overlaps(start_pagenum, num_pages) ==
    \E i \in start_pagenum..(start_pagenum + num_pages - 1) :
        translate(page_table, i).some /\ translate(page_table, i).pte.valid

\* the value sys_mmap returns before it inserts anything, 0 when it goes on
mmap_check(start, len, port) ==
    IF page_offset(start) # 0 THEN -1
    ELSE IF port \div 8 # 0 \/ port % 8 = 0 THEN -1
    ELSE IF FreeFrames(frame_allocator) <= num_pages_of(len) THEN -1
    ELSE IF mmap_overlaps(VirtAddr_floor(start), num_pages_of(len)) THEN -1
    ELSE 0

sys_mmap(start, len, port) ==
    /\ ~panicked
    /\ CallsMade < MaxCalls
    /\ UNCHANGED outsideMem
    /\ count_syscall(11)
    /\ IF mmap_check(start, len, port) # 0
       THEN /\ last' = Event("mmap", current, 0, TRUE, -1)
            /\ UNCHANGED << areas, page_table, frame_allocator, panicked >>
       ELSE LET area == MapArea_new(start, start + len, mmap_permissions(port))
                m == MapArea_map(area.l, area.r, area.perm, page_table, frame_allocator)
            IN  IF ~m.ok
                THEN \* frame_alloc().unwrap() on an empty allocator
                     /\ panicked' = TRUE
                     /\ last' = Event("mmap", current, 0, FALSE, 0)
                     /\ UNCHANGED << areas, page_table, frame_allocator >>
                ELSE /\ areas' = Append(areas, area)
                     /\ page_table' = m.pt
                     /\ frame_allocator' = m.fa
                     /\ last' = Event("mmap", current, 0, TRUE, 0)
                     /\ UNCHANGED panicked

\* the mutant of area_matches: the start alone selects the area
area_matches_start_only(range, start_pagenum, num_pages) ==
    range.l = start_pagenum

\* sys_munmap's test of an area against the pages asked for
area_matches(range, start_pagenum, num_pages) ==
    range.l = start_pagenum /\ range.r = start_pagenum + num_pages

\* the indexes of the areas sys_munmap's loop would stop at
matching_areas(start_pagenum, num_pages) ==
    {i \in 1..Len(areas) : area_matches(areas[i], start_pagenum, num_pages)}

\* the value sys_munmap returns in the current state
munmap_check(start, len) ==
    IF page_offset(start) # 0 THEN -1
    ELSE IF \E n \in 0..(num_pages_of(len) - 1) :
                ~find_pte(page_table, VirtAddr_floor(start) + n).some THEN -1
    ELSE IF matching_areas(VirtAddr_floor(start), num_pages_of(len)) = {} THEN -1
    ELSE 0

\* mutant: the area stays in the list
RemoveAt_keeps(q, i) == q

RemoveAt(q, i) == SubSeq(q, 1, i - 1) \o SubSeq(q, i + 1, Len(q))

sys_munmap(start, len) ==
    /\ ~panicked
    /\ CallsMade < MaxCalls
    /\ UNCHANGED outsideMem
    /\ count_syscall(8)
    /\ IF munmap_check(start, len) # 0
       THEN /\ last' = Event("munmap", current, 0, TRUE, -1)
            /\ UNCHANGED << areas, page_table, frame_allocator, panicked >>
       ELSE LET hits == matching_areas(VirtAddr_floor(start), num_pages_of(len))
                i == CHOOSE k \in hits : \A j \in hits : k <= j
                u == MapArea_unmap(areas[i].l, areas[i].r, page_table, frame_allocator)
            IN  /\ areas' = RemoveAt(areas, i)
                /\ page_table' = u.pt
                /\ frame_allocator' = u.fa
                /\ last' = Event("munmap", current, 0, TRUE, 0)
                /\ UNCHANGED panicked

\* the addresses, lengths and protections a task passes
Starts == {v * PAGE_SIZE : v \in VPNs} \cup {WinBase * PAGE_SIZE + PAGE_SIZE \div 2}

Lens == {n * PAGE_SIZE + d : n \in 0..(WinPages - 1), d \in {0, 1}}
            \cup {WinPages * PAGE_SIZE}

Prots == {0, 1, 6, 9}

\* the pages asked for lie in the window
InWindow(start, len) == VirtAddr_floor(start) + num_pages_of(len) <= WinBase + WinPages

(***************************************************************************)
(* Files: the descriptor table of each task and the root directory of the  *)
(* file system.  open_file, alloc_fd, the File handles and the inode       *)
(* layer of easy-fs are taken from the specification (3, 4.9).             *)
(***************************************************************************)
Names == {"a", "b", "c"}

\* a user pointer to a name: each name is found at two addresses
NamePtrs == [addr : 1..2, name : Names]

translated_str(ptr) == ptr.name

NoFile == [kind |-> "none", inode |-> 0, readable |-> FALSE, writable |-> FALSE]

Stdin == [kind |-> "stdin", inode |-> 0, readable |-> TRUE, writable |-> FALSE]

Stdout == [kind |-> "stdout", inode |-> 0, readable |-> FALSE, writable |-> TRUE]

OSInode(readable, writable, inode) ==
    [kind |-> "file", inode |-> inode, readable |-> readable, writable |-> writable]

\* the table a new task starts with: stdin, stdout, stderr
StdFds == << Stdin, Stdout, Stdout >>

DirEntry_new(name, inode_id) == [name |-> name, inode_id |-> inode_id]

ROOT == 0

InodeIds == 0..(MaxInodes - 1)

NoInode == [used |-> FALSE, nlink_num |-> 0, size |-> 0]

\* the link count mkfs leaves in the root directory's inode
RootNlinks == {0, 1}

\* nlink_num is a u32, held here as its 32 bits read as a signed number:
\* 0xFFFFFFFF, what 0 - 1 wraps to, is -1
U32_MAX == -1

\* the image holds the files a and c, each with one name and some data
InitFilesWith(root_nlink) ==
    /\ fd_table = [t \in Tasks \cup Pids |-> StdFds]
    /\ root_dir = << DirEntry_new("a", 1), DirEntry_new("c", 2) >>
    /\ inodes = [i \in InodeIds |->
                    IF i = ROOT THEN [used |-> TRUE, nlink_num |-> root_nlink, size |-> 0]
                    ELSE IF i <= 2 THEN [used |-> TRUE, nlink_num |-> 1, size |-> 1]
                    ELSE NoInode]

InitFiles == InitFilesWith(1)

\* what no file syscall touches
outsideFs == << schedVars, pc, mutex_list, enable_deadlock_detect, deadlocked,
                holderVars, semaphore_list, memVars, procVars, detector >>

FsTrap(t) == CanTrap(t) /\ UNCHANGED outsideFs

\* the slot of descriptor fd in a table; descriptors count from 0
Slot(table, fd) == table[fd + 1]

\* the indexes of the directory entries called name
entries_named(dir, name) == {i \in 1..Len(dir) : dir[i].name = name}

Min(S) == CHOOSE x \in S : \A y \in S : x <= y

Max(S) == CHOOSE x \in S : \A y \in S : x >= y

\* Inode::find_inode_id: the first entry with that name
find_inode_id(dir, name) ==
    IF entries_named(dir, name) = {}
    THEN [some |-> FALSE, inode_id |-> 0]
    ELSE [some |-> TRUE, inode_id |-> dir[Min(entries_named(dir, name))].inode_id]

\* OpenFlags and OpenFlags::read_write
RDONLY == 0
WRONLY == 1
RDWR == 2
CREATE == 512

Flags == {RDONLY, WRONLY, CREATE + WRONLY}

has_create(flags) == flags \div CREATE = 1

read_write(flags) ==
    IF flags % CREATE = RDONLY THEN << TRUE, FALSE >>
    ELSE IF flags % CREATE = WRONLY THEN << FALSE, TRUE >>
    ELSE << TRUE, TRUE >>

FreeInodes == {i \in InodeIds : ~inodes[i].used}

\* open_file: with CREATE an existing file is cleared and a missing one is
\* created with one name; without it a missing file is None
open_file(name, flags) ==
    LET found == find_inode_id(root_dir, name)
        rw == read_write(flags)
        new_id == Min(FreeInodes)
    IN  IF found.some
        THEN [some |-> TRUE, file |-> OSInode(rw[1], rw[2], found.inode_id),
              dir |-> root_dir,
              inodes |-> IF has_create(flags)
                         THEN [inodes EXCEPT ![found.inode_id].size = 0]
                         ELSE inodes]
        ELSE IF has_create(flags)
        THEN [some |-> TRUE, file |-> OSInode(rw[1], rw[2], new_id),
              dir |-> Append(root_dir, DirEntry_new(name, new_id)),
              inodes |-> [inodes EXCEPT ![new_id] =
                             [used |-> TRUE, nlink_num |-> 1, size |-> 0]]]
        ELSE [some |-> FALSE, file |-> NoFile, dir |-> root_dir, inodes |-> inodes]

\* TaskControlBlockInner::alloc_fd: the lowest empty slot, else a new one
alloc_fd(table) ==
    IF \E i \in 1..Len(table) : table[i] = NoFile
    THEN Min({i \in 1..Len(table) : table[i] = NoFile}) - 1
    ELSE Len(table)

\* fd_table[fd] = Some(inode), after alloc_fd has pushed a slot if it had to
install(table, fd, file) ==
    IF fd = Len(table) THEN Append(table, file) ELSE [table EXCEPT ![fd + 1] = file]

sys_open(t, path, flags) ==
    /\ FsTrap(t)
    /\ LET creates == has_create(flags) /\ ~find_inode_id(root_dir, path).some
       IN  /\ creates => FreeInodes # {} /\ Len(root_dir) < MaxDirents
           /\ (creates \/ find_inode_id(root_dir, path).some) =>
                  alloc_fd(fd_table[t]) < MaxFds
    /\ LET opened == open_file(path, flags)
           fd == alloc_fd(fd_table[t])
       IN  IF opened.some
           THEN /\ fd_table' = [fd_table EXCEPT ![t] = install(@, fd, opened.file)]
                /\ root_dir' = opened.dir
                /\ inodes' = opened.inodes
                /\ last' = Event("open", t, << path, flags >>, TRUE, fd)
           ELSE /\ last' = Event("open", t, << path, flags >>, TRUE, -1)
                /\ UNCHANGED fsVars
    /\ UNCHANGED << user_out, panicked >>

\* the mutant of close_slot: the handle stays in the slot
close_slot_keep(table, fd) == table

\* sys_close's fd_table[fd].take()
close_slot(table, fd) == [table EXCEPT ![fd + 1] = NoFile]

sys_close(t, fd) ==
    /\ FsTrap(t)
    /\ IF fd >= Len(fd_table[t])
       THEN /\ last' = Event("close", t, fd, TRUE, -1)
            /\ UNCHANGED fd_table
       ELSE IF Slot(fd_table[t], fd) = NoFile
       THEN /\ last' = Event("close", t, fd, TRUE, -1)
            /\ UNCHANGED fd_table
       ELSE /\ fd_table' = [fd_table EXCEPT ![t] = close_slot(@, fd)]
            /\ last' = Event("close", t, fd, TRUE, 0)
    /\ UNCHANGED << root_dir, inodes, user_out, panicked >>

\* File::read: the console gives one character, a file what it holds
File_read(file, len) ==
    IF file.kind = "stdin" THEN 1
    ELSE IF inodes[file.inode].size < len THEN inodes[file.inode].size ELSE len

sys_read(t, fd, len) ==
    /\ FsTrap(t)
    /\ IF fd >= Len(fd_table[t])
       THEN last' = Event("read", t, << fd, len >>, TRUE, -1)
       ELSE IF Slot(fd_table[t], fd) = NoFile
       THEN last' = Event("read", t, << fd, len >>, TRUE, -1)
       ELSE IF ~Slot(fd_table[t], fd).readable
       THEN last' = Event("read", t, << fd, len >>, TRUE, -1)
       ELSE last' = Event("read", t, << fd, len >>, TRUE,
                          File_read(Slot(fd_table[t], fd), len))
    /\ UNCHANGED << fsVars, user_out, panicked >>

\* File::write: the console takes it all, a file grows to hold it
File_write(file, len) ==
    IF file.kind = "file" /\ inodes[file.inode].size < len
    THEN [inodes EXCEPT ![file.inode].size = len]
    ELSE inodes

sys_write(t, fd, len) ==
    /\ FsTrap(t)
    /\ IF fd >= Len(fd_table[t])
       THEN /\ last' = Event("write", t, << fd, len >>, TRUE, -1)
            /\ UNCHANGED inodes
       ELSE IF Slot(fd_table[t], fd) = NoFile
       THEN /\ last' = Event("write", t, << fd, len >>, TRUE, -1)
            /\ UNCHANGED inodes
       ELSE IF ~Slot(fd_table[t], fd).writable
       THEN /\ last' = Event("write", t, << fd, len >>, TRUE, -1)
            /\ UNCHANGED inodes
       ELSE /\ inodes' = File_write(Slot(fd_table[t], fd), len)
            /\ last' = Event("write", t, << fd, len >>, TRUE, len)
    /\ UNCHANGED << fd_table, root_dir, user_out, panicked >>

\* what a syscall that stores a structure through `(phys_addr.0 + offset) as
\* *mut T` does: the page of ptr alone is translated, and size bytes are
\* stored at consecutive physical addresses from there
raw_store(op, ptr, size, val) ==
    [op |-> op, val |-> val, ptr |-> ptr, size |-> size,
     pa |-> translate(page_table, VirtAddr_floor(ptr)).pte.ppn * PAGE_SIZE
              + page_offset(ptr)]

\* translate(..).unwrap() panics when the leaf table of the page is missing
store_panics(ptr) == ~translate(page_table, VirtAddr_floor(ptr)).some

\* sizes of the structures, 64-bit layout
TimeVal_size == 16
Stat_size == 80
MAX_SYSCALL_NUM == 500
TaskInfo_size == 8 + 4 * MAX_SYSCALL_NUM + 8

\* StatMode
DIR == 16384
FILE == 32768

\* File::get_stat of a file handle
get_stat(file) ==
    [dev |-> 0, ino |-> file.inode,
     mode |-> IF file.inode = ROOT THEN DIR ELSE FILE,
     nlink |-> inodes[file.inode].nlink_num]

\* the addresses a task passes for a structure: the start of its first data
\* page, and 0xFFC in that page, four bytes before the second one
StructPtrs == {DataBase * PAGE_SIZE, DataBase * PAGE_SIZE + 4092}

sys_fstat(t, fd, st) ==
    /\ FsTrap(t)
    /\ fd < Len(fd_table[t]) => Slot(fd_table[t], fd).kind \in {"none", "file"}
    /\ IF fd >= Len(fd_table[t])
       THEN /\ last' = Event("fstat", t, << fd, st >>, TRUE, -1)
            /\ UNCHANGED << user_out, panicked >>
       ELSE IF Slot(fd_table[t], fd) = NoFile
       THEN /\ last' = Event("fstat", t, << fd, st >>, TRUE, -1)
            /\ UNCHANGED << user_out, panicked >>
       ELSE IF store_panics(st)
       THEN /\ panicked' = TRUE
            /\ last' = Event("fstat", t, << fd, st >>, FALSE, 0)
            /\ UNCHANGED user_out
       ELSE /\ user_out' = raw_store("fstat", st, Stat_size,
                                     get_stat(Slot(fd_table[t], fd)))
            /\ last' = Event("fstat", t, << fd, st >>, TRUE, 0)
            /\ UNCHANGED panicked
    /\ UNCHANGED fsVars

sys_linkat(t, old_name, new_name) ==
    /\ FsTrap(t)
    /\ LET found == find_inode_id(root_dir, translated_str(old_name))
           inode_id == found.inode_id
       IN  IF old_name = new_name
           THEN /\ last' = Event("linkat", t, << old_name, new_name >>, TRUE, -1)
                /\ UNCHANGED << root_dir, inodes >>
           ELSE IF ~found.some
           THEN /\ last' = Event("linkat", t, << old_name, new_name >>, TRUE, -1)
                /\ UNCHANGED << root_dir, inodes >>
           ELSE /\ Len(root_dir) < MaxDirents
                /\ inodes[inode_id].nlink_num < MaxNlink
                /\ inodes' = [inodes EXCEPT ![inode_id].nlink_num = @ + 1]
                /\ root_dir' = Append(root_dir,
                                      DirEntry_new(translated_str(new_name), inode_id))
                /\ last' = Event("linkat", t, << old_name, new_name >>, TRUE, 0)
    /\ UNCHANGED << fd_table, user_out, panicked >>

\* sys_unlinkat's first loop: the entries kept ...
unlink_kept(dir, name) == SelectSeq(dir, LAMBDA d : d.name # name)

\* ... and the inode id it ends with: 0, or that of the last entry called name
unlink_inode_id(dir, name) ==
    IF entries_named(dir, name) = {} THEN 0
    ELSE dir[Max(entries_named(dir, name))].inode_id

\* `nlink_num -= 1` with nlink_num = 0 panics in a build that checks overflow
\* and wraps in one that does not
sys_unlinkat(t, name) ==
    /\ FsTrap(t)
    /\ inodes[unlink_inode_id(root_dir, name)].nlink_num > U32_MAX - MaxNlink
    /\ LET v == unlink_kept(root_dir, name)
           inode_id == unlink_inode_id(root_dir, name)
           nlink == inodes[inode_id].nlink_num
           left == IF nlink = 0 THEN U32_MAX ELSE nlink - 1
       IN  \/ /\ nlink = 0
              /\ panicked' = TRUE
              /\ root_dir' = v
              /\ last' = Event("unlinkat", t, name, FALSE, 0)
              /\ UNCHANGED inodes
           \/ /\ inodes' = [inodes EXCEPT ![inode_id] =
                               [@ EXCEPT !.nlink_num = left,
                                         !.size = IF left = 0 THEN 0 ELSE @]]
              /\ root_dir' = IF left = 0 /\ inode_id = ROOT THEN << >> ELSE v
              /\ last' = Event("unlinkat", t, name, TRUE, 0)
              /\ UNCHANGED panicked
    /\ UNCHANGED << fd_table, user_out >>

(***************************************************************************)
(* ResourceAllocation, the matrices of the deadlock detector (sync.rs).    *)
(* A Vec is a sequence, its index i is position i + 1.  A usize is held as *)
(* the signed reading of its 64 bits, so that 0 - 1 is -1; an index that   *)
(* find's -1 was cast to lies beyond every length.                         *)
(***************************************************************************)
ResourceAllocation_new ==
    [available |-> << >>, allocation |-> << << >> >>, need |-> << << >> >>,
     tid_list |-> << >>, finish |-> << >>, maximum |-> << >>]

\* v[i] exists
InBounds(v, i) == 0 <= i /\ i < Len(v)

\* a < b for two usize values
usize_lt(a, b) == IF (a < 0) = (b < 0) THEN a < b ELSE b < 0

\* a - b: panics on overflow when the build checks it, wraps otherwise
usize_sub(a, b, checks) == [ok |-> ~(checks /\ usize_lt(a, b)), val |-> a - b]

resources_types_num(ra) == Len(ra.available)

find(ra, tid) ==
    IF \E k \in 1..Len(ra.tid_list) : ra.tid_list[k] = tid
    THEN (CHOOSE k \in 1..Len(ra.tid_list) :
              /\ ra.tid_list[k] = tid
              /\ \A h \in 1..(k - 1) : ra.tid_list[h] # tid) - 1
    ELSE -1

\* the result of a method: ok = FALSE when it panicked, ra the matrices then
Done(ra) == [ok |-> TRUE, ra |-> ra]

Panicked(ra) == [ok |-> FALSE, ra |-> ra]

\* add_res_type's loop from row i on
RECURSIVE add_res_type_rows(_, _)
add_res_type_rows(ra, i) ==
    IF i >= Len(ra.tid_list) THEN Done(ra)
    ELSE IF ~InBounds(ra.allocation, i) \/ ~InBounds(ra.need, i) THEN Panicked(ra)
    ELSE add_res_type_rows([ra EXCEPT !.allocation[i + 1] = Append(@, 0),
                                      !.need[i + 1] = Append(@, 0)], i + 1)

add_res_type(ra, res_count) ==
    add_res_type_rows([ra EXCEPT !.available = Append(@, res_count),
                                 !.maximum = Append(@, res_count)], 0)

addthread(ra, tid) ==
    LET j == Len(ra.available)
        pushed == [ra EXCEPT !.allocation = Append(@, [k \in 1..j |-> 0]),
                             !.need = Append(@, [k \in 1..j |-> 0]),
                             !.tid_list = Append(@, tid)]
        last_idx == Len(pushed.tid_list) - 1
    IN  IF ~InBounds(pushed.finish, last_idx)
        THEN Panicked(pushed)
        ELSE Done([pushed EXCEPT !.finish[last_idx + 1] = FALSE])

\* renew_maximum's loops from column j on
RECURSIVE renew_maximum_cols(_, _, _, _)
renew_maximum_cols(ra, i, j, checks) ==
    IF j >= Len(ra.maximum) THEN Done(ra)
    ELSE IF ~InBounds(ra.allocation, i) \/ ~InBounds(ra.allocation[i + 1], j)
    THEN Panicked(ra)
    ELSE IF ra.finish[i + 1]
    THEN renew_maximum_cols([ra EXCEPT !.maximum[j + 1] = @ + ra.allocation[i + 1][j + 1]],
                            i, j + 1, checks)
    ELSE LET d == usize_sub(ra.maximum[j + 1], ra.allocation[i + 1][j + 1], checks)
         IN  IF ~d.ok THEN Panicked(ra)
             ELSE renew_maximum_cols([ra EXCEPT !.maximum[j + 1] = d.val], i, j + 1, checks)

renew_maximum(ra, tid, checks) ==
    LET i == find(ra, tid)
    IN  IF ~InBounds(ra.finish, i) THEN Panicked(ra)
        ELSE renew_maximum_cols(ra, i, 0, checks)

\* alloc; asleep = TRUE when it is in its loop of sleep(10)
alloc(ra, tid, res_id, checks) ==
    LET i == find(ra, tid)
    IN  IF ~InBounds(ra.need, i) \/ ~InBounds(ra.need[i + 1], res_id)
        THEN [ok |-> FALSE, asleep |-> FALSE, ra |-> ra]
        ELSE LET r1 == [ra EXCEPT !.need[i + 1][res_id + 1] = 1]
             IN  IF ~InBounds(r1.available, res_id)
                 THEN [ok |-> FALSE, asleep |-> FALSE, ra |-> r1]
                 ELSE IF usize_lt(r1.available[res_id + 1], 1)
                 THEN [ok |-> TRUE, asleep |-> TRUE, ra |-> r1]
                 ELSE LET r2 == [r1 EXCEPT !.available[res_id + 1] = @ - 1]
                      IN  IF ~InBounds(r2.allocation, i)
                             \/ ~InBounds(r2.allocation[i + 1], res_id)
                          THEN [ok |-> FALSE, asleep |-> FALSE, ra |-> r2]
                          ELSE LET r3 == [r2 EXCEPT !.allocation[i + 1][res_id + 1] = @ + 1,
                                                    !.need[i + 1][res_id + 1] = 0]
                               IN  IF ~InBounds(r3.finish, i)
                                   THEN [ok |-> FALSE, asleep |-> FALSE, ra |-> r3]
                                   ELSE LET r4 == renew_maximum(
                                                      [r3 EXCEPT !.finish[i + 1] = TRUE],
                                                      tid, checks)
                                        IN  [ok |-> r4.ok, asleep |-> FALSE, ra |-> r4.ra]

dealloc(ra, tid, res_id, checks) ==
    LET i == find(ra, tid)
    IN  IF ~InBounds(ra.allocation, i) \/ ~InBounds(ra.allocation[i + 1], res_id)
        THEN Panicked(ra)
        ELSE LET d == usize_sub(ra.allocation[i + 1][res_id + 1], 1, checks)
                 r1 == [ra EXCEPT !.allocation[i + 1][res_id + 1] = d.val]
             IN  IF ~d.ok THEN Panicked(ra)
                 ELSE IF ~InBounds(r1.available, res_id) THEN Panicked(r1)
                 ELSE Done([r1 EXCEPT !.available[res_id + 1] = @ + 1])

\* release's loop from column j on
RECURSIVE release_cols(_, _, _)
release_cols(ra, i, j) ==
    IF j >= Len(ra.available) THEN Done(ra)
    ELSE IF ~InBounds(ra.allocation, i) \/ ~InBounds(ra.allocation[i + 1], j)
    THEN Panicked(ra)
    ELSE release_cols([ra EXCEPT !.available[j + 1] = @ + ra.allocation[i + 1][j + 1],
                                 !.allocation[i + 1][j + 1] = 0], i, j + 1)

release(ra, tid) == release_cols(ra, find(ra, tid), 0)

is_deadlocked(ra, res_id) ==
    IF ~InBounds(ra.maximum, res_id)
    THEN [ok |-> FALSE, result |-> FALSE]
    ELSE [ok |-> TRUE, result |-> usize_lt(ra.maximum[res_id + 1], 1)]

\* what no method of the detector touches
outsideDetector == << schedVars, pc, mutex_list, enable_deadlock_detect, deadlocked,
                      holderVars, semaphore_list, memVars, procVars, user_out, fsVars >>

\* the kernel calls a method of the process's detector: the matrices are
\* what the method left, at its return or at its panic
DetectorCall(op, args, res) ==
    /\ ~panicked
    /\ UNCHANGED outsideDetector
    /\ detector' = res.ra
    /\ panicked' = ~res.ok
    /\ last' = Event(op, NoTask, args, res.ok, 0)

call_add_res_type(res_count) ==
    /\ resources_types_num(detector) < MaxMutexes + MaxSems
    /\ DetectorCall("add_res_type", << res_count >>, add_res_type(detector, res_count))

call_addthread(tid) == DetectorCall("addthread", << tid >>, addthread(detector, tid))

call_alloc(tid, res_id, checks) ==
    LET res == alloc(detector, tid, res_id, checks)
    IN  /\ DetectorCall("alloc", << tid, res_id >>, [ok |-> res.ok, ra |-> res.ra])
        /\ res.asleep => ~last'.returned

call_dealloc(tid, res_id, checks) ==
    DetectorCall("dealloc", << tid, res_id >>, dealloc(detector, tid, res_id, checks))

call_renew_maximum(tid, checks) ==
    DetectorCall("renew_maximum", << tid >>, renew_maximum(detector, tid, checks))

call_release(tid) == DetectorCall("release", << tid >>, release(detector, tid))

call_is_deadlocked(res_id) ==
    /\ ~panicked
    /\ UNCHANGED << outsideDetector, detector >>
    /\ panicked' = ~is_deadlocked(detector, res_id).ok
    /\ last' = Event("is_deadlocked", NoTask, << res_id >>,
                     is_deadlocked(detector, res_id).ok,
                     IF is_deadlocked(detector, res_id).result THEN 1 ELSE 0)

(***************************************************************************)
(* Processes: fork, spawn, exit, waitpid.  TaskControlBlock::fork and      *)
(* ::new, the pid allocator, the loader and exit_current_and_run_next are  *)
(* taken from the specification (4.5).                                     *)
(***************************************************************************)
INITPROC == 0

\* the images the loader knows, and the paths a task passes
Apps == {"app"}

Paths == {"app", "nofile"}

ExitCodes == {0, 42}

ZeroTimes == [i \in 0..14 |-> 0]

NoOutput == [op |-> "none", val |-> 0]

InitProcess ==
    /\ children = [p \in Pids |-> << >>]
    /\ parent = [p \in Pids |-> NoTask]
    /\ exit_code = [p \in Pids |-> 0]
    /\ trap_x10 = [p \in Pids |-> 0]
    /\ pid_allocator = [current |-> INITPROC + 1, recycled |-> << >>]
    /\ user_out = NoOutput
    /\ detector = ResourceAllocation_new

\* PidAllocator::alloc: a recycled pid first, else the next fresh one
pid_alloc(pa) ==
    IF pa.recycled # << >>
    THEN [pid |-> pa.recycled[Len(pa.recycled)],
          pa |-> [pa EXCEPT !.recycled = SubSeq(@, 1, Len(@) - 1)]]
    ELSE [pid |-> pa.current, pa |-> [pa EXCEPT !.current = @ + 1]]

\* PidAllocator::dealloc, when the last reference to a TCB is dropped
pid_dealloc(pa, pid) == [pa EXCEPT !.recycled = Append(@, pid)]

LiveTasks == {p \in Pids : task_status[p] # "None"}

\* f[0] + ... + f[n]
RECURSIVE SumTo(_, _)
SumTo(f, n) == IF n < 0 THEN 0 ELSE f[n] + SumTo(f, n - 1)

\* syscalls issued so far by the tasks that exist
ProcCallsMade ==
    SumTo([p \in Pids |-> IF p \in LiveTasks THEN SumTo(syscall_times[p], 14) ELSE 0],
          MaxProcs - 1)

\* what no process syscall touches
outsideProc == << pc, mutex_list, enable_deadlock_detect, deadlocked, holderVars,
                  semaphore_list, areas, page_table, frame_allocator,
                  root_dir, inodes, detector >>

\* a task of the process tree issues a syscall
ProcTrap(t) == CanTrap(t) /\ ProcCallsMade < MaxProcCalls /\ UNCHANGED outsideProc

\* the value a syscall returns reaches the caller in x[10]
returns(op, t, id, ret) ==
    /\ last' = Event(op, t, id, TRUE, ret)
    /\ trap_x10' = [trap_x10 EXCEPT ![t] = ret]

\* the mutant of child_x10: the child keeps the register it was forked with
child_x10_inherited(parent_x10) == parent_x10

\* sys_fork's `trap_cx.x[10] = 0` on the copy of the parent's trap context
child_x10(parent_x10) == 0

sys_fork(t) ==
    /\ ProcTrap(t)
    /\ Cardinality(LiveTasks) < MaxProcs
    /\ LET a == pid_alloc(pid_allocator)
           new_pid == a.pid
       IN  /\ syscall_times' = [counted(9) EXCEPT ![new_pid] = ZeroTimes]
           /\ pid_allocator' = a.pa
           /\ children' = [children EXCEPT ![t] = Append(@, new_pid)]
           /\ parent' = [parent EXCEPT ![new_pid] = t]
           /\ exit_code' = [exit_code EXCEPT ![new_pid] = 0]
           /\ task_status' = [task_status EXCEPT ![new_pid] = "Ready"]
           /\ ready_queue' = Append(ready_queue, new_pid)
           /\ current' = current
           /\ last' = Event("fork", t, 0, TRUE, new_pid)
           /\ trap_x10' = [trap_x10 EXCEPT ![new_pid] = child_x10(trap_x10[t]),
                                            ![t] = new_pid]
           /\ fd_table' = [fd_table EXCEPT ![new_pid] = fd_table[t]]
    /\ UNCHANGED << user_out, panicked >>

\* the mutant of spawn_queue: the new task is queued twice
spawn_queue_twice(rq, new_pid) == Append(Append(rq, new_pid), new_pid)

\* sys_spawn's add_task
spawn_queue(rq, new_pid) == Append(rq, new_pid)

sys_spawn(t, path) ==
    /\ ProcTrap(t)
    /\ path \in Apps => Cardinality(LiveTasks) < MaxProcs
    /\ IF path \notin Apps
       THEN /\ count_syscall(13)
            /\ returns("spawn", t, path, -1)
            /\ UNCHANGED << schedVars, children, parent, exit_code, pid_allocator,
                            fd_table >>
       ELSE LET a == pid_alloc(pid_allocator)
                new_pid == a.pid
            IN  /\ syscall_times' = [counted(13) EXCEPT ![new_pid] = ZeroTimes]
                /\ pid_allocator' = a.pa
                /\ parent' = [parent EXCEPT ![new_pid] = t]
                /\ exit_code' = [exit_code EXCEPT ![new_pid] = 0]
                /\ task_status' = [task_status EXCEPT ![new_pid] = "Ready"]
                /\ ready_queue' = spawn_queue(ready_queue, new_pid)
                /\ current' = current
                /\ children' = [children EXCEPT ![t] = Append(@, new_pid)]
                /\ last' = Event("spawn", t, path, TRUE, new_pid)
                /\ trap_x10' = [trap_x10 EXCEPT ![new_pid] = 0, ![t] = new_pid]
                /\ fd_table' = [fd_table EXCEPT ![new_pid] = StdFds]
    /\ UNCHANGED << user_out, panicked >>

\* exit_current_and_run_next: Zombie, exit code, children to the init task
sys_exit(t, code) ==
    /\ ProcTrap(t)
    /\ t # INITPROC
    /\ count_syscall(2)
    /\ exit_code' = [exit_code EXCEPT ![t] = code]
    /\ children' = [children EXCEPT ![INITPROC] = @ \o children[t], ![t] = << >>]
    /\ parent' = [p \in Pids |-> IF p \in Range(children[t]) THEN INITPROC ELSE parent[p]]
    /\ run_next(ready_queue, [task_status EXCEPT ![t] = "Zombie"])
    /\ last' = Event("exit", t, code, FALSE, 0)
    /\ UNCHANGED << trap_x10, pid_allocator, user_out, panicked, fd_table >>

\* sys_waitpid's closure: the child is one the caller asks about
wait_matches(pid, p) == pid = -1 \/ pid = p

\* the mutant of wait_found: any matching child is taken, exited or not
wait_found_any(t, pid) ==
    {i \in 1..Len(children[t]) : wait_matches(pid, children[t][i])}

\* the indexes sys_waitpid's find would stop at
wait_found(t, pid) ==
    {i \in 1..Len(children[t]) :
        task_status[children[t][i]] = "Zombie" /\ wait_matches(pid, children[t][i])}

\* how often the task x occurs in the queue q
Occurrences(q, x) == Cardinality({ i \in 1..Len(q) : q[i] = x })

\* Arc::strong_count of the task bound to `child` once it is out of the
\* caller's list: that binding, and every place that still holds the task
strong_count(child, kids) ==
    1 + SumTo([p \in Pids |-> Occurrences(kids[p], child)], MaxProcs - 1)
      + Occurrences(ready_queue, child)
      + (IF current = child THEN 1 ELSE 0)
      + SumTo([m \in 0..Len(mutex_list) |->
                 IF m = 0 THEN 0 ELSE Occurrences(mutex_list[m].wait_queue, child)],
              Len(mutex_list))
      + SumTo([m \in 0..Len(semaphore_list) |->
                 IF m = 0 THEN 0 ELSE Occurrences(semaphore_list[m].wait_queue, child)],
              Len(semaphore_list))

sys_waitpid(t, pid) ==
    /\ ProcTrap(t)
    /\ count_syscall(12)
    /\ IF ~\E i \in 1..Len(children[t]) : wait_matches(pid, children[t][i])
       THEN /\ returns("waitpid", t, pid, -1)
            /\ UNCHANGED << schedVars, children, parent, exit_code, pid_allocator, user_out,
                            panicked >>
       ELSE IF wait_found(t, pid) = {}
       THEN /\ returns("waitpid", t, pid, -2)
            /\ UNCHANGED << schedVars, children, parent, exit_code, pid_allocator, user_out,
                            panicked >>
       ELSE LET idx == CHOOSE i \in wait_found(t, pid) : \A j \in wait_found(t, pid) : i <= j
                child == children[t][idx]
                kids == [children EXCEPT ![t] = RemoveAt(@, idx)]
            IN  IF strong_count(child, kids) # 1
                THEN \* assert_eq!(Arc::strong_count(&child), 1) fails
                     /\ panicked' = TRUE
                     /\ children' = kids
                     /\ last' = Event("waitpid", t, pid, FALSE, 0)
                     /\ UNCHANGED << schedVars, parent, exit_code, pid_allocator, user_out,
                                     trap_x10 >>
                ELSE /\ children' = kids
                     /\ parent' = [parent EXCEPT ![child] = NoTask]
                     /\ task_status' = [task_status EXCEPT ![child] = "None"]
                     /\ pid_allocator' = pid_dealloc(pid_allocator, child)
                     /\ user_out' = [op |-> "waitpid", val |-> exit_code[child]]
                     /\ returns("waitpid", t, pid, child)
                     /\ UNCHANGED << ready_queue, current, exit_code, panicked >>
    /\ UNCHANGED fd_table

sys_yield(t) ==
    /\ ProcTrap(t)
    /\ count_syscall(3)
    /\ suspend_current_and_run_next(t)
    /\ returns("yield", t, 0, 0)
    /\ UNCHANGED << children, parent, exit_code, pid_allocator, user_out, panicked,
                    fd_table >>

(***************************************************************************)
(* Counting semaphores.  Semaphore is (count, wait_queue): up increments   *)
(* and wakes one waiter when the result is <= 0, down decrements and       *)
(* blocks the caller when the result is < 0.                               *)
(***************************************************************************)
Semaphore_new(res_count) == [count |-> res_count, wait_queue |-> << >>]

SemAt(id) == semaphore_list[id + 1]

SemExists(id) == id < Len(semaphore_list)

\* what no semaphore syscall touches
outsideSem == << mutex_list, enable_deadlock_detect, deadlocked, holderVars, memVars,
                 otherVars >>

Semaphore_up(t, id) ==
    /\ semaphore_list' = [semaphore_list EXCEPT ![id + 1] =
            [count |-> @.count + 1,
             wait_queue |-> IF @.count + 1 <= 0 /\ @.wait_queue # << >>
                            THEN Tail(@.wait_queue) ELSE @.wait_queue]]
    /\ IF SemAt(id).count + 1 <= 0 /\ SemAt(id).wait_queue # << >>
       THEN wakeup_task(Head(SemAt(id).wait_queue))
       ELSE UNCHANGED schedVars
    /\ last' = Event("semaphore_up", t, id, TRUE, 0)
    /\ UNCHANGED pc

Semaphore_down(t, id) ==
    IF SemAt(id).count - 1 < 0
    THEN /\ semaphore_list' = [semaphore_list EXCEPT ![id + 1] =
                [count |-> @.count - 1, wait_queue |-> Append(@.wait_queue, t)]]
         /\ block_current_and_run_next(t)
         /\ pc' = [pc EXCEPT ![t] = [at |-> "sem_blocked", id |-> id]]
         /\ last' = Event("semaphore_down", t, id, FALSE, 0)
    ELSE /\ semaphore_list' = [semaphore_list EXCEPT ![id + 1].count = @ - 1]
         /\ last' = Event("semaphore_down", t, id, TRUE, 0)
         /\ UNCHANGED << schedVars, pc >>

\* sys_semaphore_down's `sem_id > 2`
SemDebugLimit == 2

sys_semaphore_create(t, res_count) ==
    /\ CanTrap(t)
    /\ UNCHANGED outsideSem
    /\ Len(semaphore_list) < MaxSems
    /\ semaphore_list' = Append(semaphore_list, Semaphore_new(res_count))
    /\ last' = Event("semaphore_create", t, Len(semaphore_list), TRUE, Len(semaphore_list))
    /\ UNCHANGED << schedVars, pc, panicked >>

sys_semaphore_up(t, sem_id) ==
    /\ CanTrap(t)
    /\ UNCHANGED outsideSem
    /\ IF ~SemExists(sem_id)
       THEN /\ panicked' = TRUE
            /\ last' = Event("semaphore_up", t, sem_id, FALSE, 0)
            /\ UNCHANGED << schedVars, pc, semaphore_list >>
       ELSE /\ SemAt(sem_id).count < MaxCount
            /\ Semaphore_up(t, sem_id)
            /\ UNCHANGED panicked

sys_semaphore_down(t, sem_id) ==
    /\ CanTrap(t)
    /\ UNCHANGED outsideSem
    /\ IF sem_id > SemDebugLimit
       THEN /\ last' = Event("semaphore_down", t, sem_id, TRUE, DEAD)
            /\ UNCHANGED << schedVars, pc, semaphore_list, panicked >>
       ELSE IF ~SemExists(sem_id)
       THEN /\ panicked' = TRUE
            /\ last' = Event("semaphore_down", t, sem_id, FALSE, 0)
            /\ UNCHANGED << schedVars, pc, semaphore_list >>
       ELSE /\ Semaphore_down(t, sem_id)
            /\ UNCHANGED panicked

\* a thread woken inside down returns 0 from the syscall
DownContinue(t) ==
    /\ ~panicked
    /\ current = t
    /\ pc[t].at = "sem_blocked"
    /\ UNCHANGED outsideSem
    /\ pc' = [pc EXCEPT ![t] = InUser]
    /\ last' = Event("semaphore_down", t, pc[t].id, TRUE, 0)
    /\ UNCHANGED << schedVars, semaphore_list, panicked >>

(***************************************************************************)
(* The syscalls that report to user memory: time and task information.     *)
(* get_time_us and start_time are taken from the specification.            *)
(***************************************************************************)
\* what get_time_us reads, in microseconds
Clock == {1500000, 2000001}

TimeVal(us) == [sec |-> us \div 1000000, usec |-> us % 1000000]

\* the task syscalls outside the process tree leave it alone
InfoTrap(t) ==
    /\ ProcTrap(t)
    /\ UNCHANGED << schedVars, children, parent, exit_code, pid_allocator, fsVars >>

sys_get_time(t, ts, us) ==
    /\ InfoTrap(t)
    /\ count_syscall(5)
    /\ IF store_panics(ts)
       THEN /\ panicked' = TRUE
            /\ last' = Event("get_time", t, ts, FALSE, 0)
            /\ UNCHANGED << user_out, trap_x10 >>
       ELSE /\ user_out' = raw_store("get_time", ts, TimeVal_size, TimeVal(us))
            /\ returns("get_time", t, ts, 0)
            /\ UNCHANGED panicked

\* the syscall number under which sys_task_info reports counter k
reported_at(k) ==
    CASE k = 0 -> 63 [] k = 1 -> 64 [] k = 2 -> 93 [] k = 3 -> 124
      [] k = 4 -> 140 [] k = 5 -> 169 [] k = 6 -> 172 [] k = 7 -> 214
      [] k = 8 -> 215 [] k = 9 -> 220 [] k = 10 -> 221 [] k = 11 -> 222
      [] k = 12 -> 260 [] k = 13 -> 400 [] k = 14 -> 410

\* the entries sys_task_info assigns after zeroing them all
Reported == {reported_at(k) : k \in 0..14}

\* the TaskInfo sys_task_info builds from the caller's counters
TaskInfo(status, times, time) ==
    [status |-> status,
     syscall_times |-> [n \in 0..(MAX_SYSCALL_NUM - 1) |->
                          IF n \in Reported
                          THEN times[CHOOSE k \in 0..14 : reported_at(k) = n]
                          ELSE 0],
     time |-> time]

sys_task_info(t, ti, us) ==
    /\ InfoTrap(t)
    /\ count_syscall(14)
    /\ IF store_panics(ti)
       THEN /\ panicked' = TRUE
            /\ last' = Event("task_info", t, ti, FALSE, 0)
            /\ UNCHANGED << user_out, trap_x10 >>
       ELSE /\ user_out' = raw_store("task_info", ti, TaskInfo_size,
                               TaskInfo(task_status[t], counted(14)[t], us \div 1000))
            /\ returns("task_info", t, ti, 0)
            /\ UNCHANGED panicked

sys_getpid(t) ==
    /\ InfoTrap(t)
    /\ count_syscall(6)
    /\ returns("getpid", t, 0, t)
    /\ UNCHANGED << user_out, panicked >>

Init ==
    /\ task_status = [t \in Tasks |-> IF t = 1 THEN "Running" ELSE "Ready"]
    /\ ready_queue = [i \in 1..(NumTasks - 1) |-> i + 1]
    /\ current = 1
    /\ pc = [t \in Tasks |-> InUser]
    /\ mutex_list = << >>
    /\ enable_deadlock_detect = FALSE
    /\ deadlocked = FALSE
    /\ panicked = FALSE
    /\ holder = << >>
    /\ track_holders = FALSE
    /\ last = Event("boot", NoTask, 0, FALSE, 0)
    /\ semaphore_list = << >>
    /\ InitMemory
    /\ InitProcess
    /\ InitFiles

Next ==
    \/ \E t \in Tasks, blocking \in BOOLEAN : sys_mutex_create(t, blocking)
    \/ \E t \in Tasks, id \in 0..MaxMutexes : sys_mutex_lock(t, id)
    \/ \E t \in Tasks : LockContinue(t)
    \/ \E t \in Tasks, id \in 0..MaxMutexes : sys_mutex_unlock(t, id)
    \/ \E t \in Tasks, enabled \in 0..1 : sys_enable_deadlock_detect(t, enabled)
    \/ \E t \in Tasks : Yield(t)

Spec == Init /\ [][Next]_vars

(***************************************************************************)
(* The same kernel under the threads of a well-behaved process: it creates *)
(* blocking mutexes only and a thread unlocks only a mutex it holds.  The  *)
(* holder of each mutex is recorded.                                       *)
(***************************************************************************)
InitHolders ==
    /\ task_status = [t \in Tasks |-> IF t = 1 THEN "Running" ELSE "Ready"]
    /\ ready_queue = [i \in 1..(NumTasks - 1) |-> i + 1]
    /\ current = 1
    /\ pc = [t \in Tasks |-> InUser]
    /\ mutex_list = << >>
    /\ enable_deadlock_detect = FALSE
    /\ deadlocked = FALSE
    /\ panicked = FALSE
    /\ holder = << >>
    /\ track_holders = TRUE
    /\ last = Event("boot", NoTask, 0, FALSE, 0)
    /\ semaphore_list = << >>
    /\ InitMemory
    /\ InitProcess
    /\ InitFiles

NextHolders ==
    \/ \E t \in Tasks : sys_mutex_create(t, TRUE)
    \/ \E t \in Tasks, id \in 0..MaxMutexes : sys_mutex_lock(t, id)
    \/ \E t \in Tasks : LockContinue(t)
    \/ \E t \in Tasks, id \in 0..MaxMutexes :
            /\ MutexExists(id) => Holds(t, id)
            /\ sys_mutex_unlock(t, id)
    \/ \E t \in Tasks, enabled \in 0..1 : sys_enable_deadlock_detect(t, enabled)
    \/ \E t \in Tasks : Yield(t)

SpecHolders == InitHolders /\ [][NextHolders]_vars

(***************************************************************************)
(* A well-behaved process with one thread more, so that a mutex can have   *)
(* a holder and a queue of NumTasks waiters at once.  It creates one       *)
(* mutex less, of either kind, and a thread unlocks only a mutex it holds. *)
(***************************************************************************)
Threads == 1..(NumTasks + 1)

InitThreads ==
    /\ task_status = [t \in Threads |-> IF t = 1 THEN "Running" ELSE "Ready"]
    /\ ready_queue = [i \in 1..NumTasks |-> i + 1]
    /\ current = 1
    /\ pc = [t \in Threads |-> InUser]
    /\ mutex_list = << >>
    /\ enable_deadlock_detect = FALSE
    /\ deadlocked = FALSE
    /\ panicked = FALSE
    /\ holder = << >>
    /\ track_holders = TRUE
    /\ last = Event("boot", NoTask, 0, FALSE, 0)
    /\ semaphore_list = << >>
    /\ InitMemory
    /\ InitProcess
    /\ InitFiles

NextThreads ==
    \/ \E t \in Threads, blocking \in BOOLEAN :
            /\ Len(mutex_list) < MaxMutexes - 1
            /\ sys_mutex_create(t, blocking)
    \/ \E t \in Threads, id \in 0..MaxMutexes : sys_mutex_lock(t, id)
    \/ \E t \in Threads : LockContinue(t)
    \/ \E t \in Threads, id \in 0..MaxMutexes :
            /\ MutexExists(id) => Holds(t, id)
            /\ sys_mutex_unlock(t, id)
    \/ \E t \in Threads, enabled \in 0..1 : sys_enable_deadlock_detect(t, enabled)
    \/ \E t \in Threads : Yield(t)

SpecThreads == InitThreads /\ [][NextThreads]_vars

(***************************************************************************)
(* The detector on its own: any method, with any thread id and resource    *)
(* id, in a build with or without overflow checks.                         *)
(***************************************************************************)
ResIds == 0..(MaxMutexes + MaxSems)

NextDetector ==
    \/ \E res_count \in 0..MaxCount : call_add_res_type(res_count)
    \/ \E tid \in Tasks : call_addthread(tid)
    \/ \E tid \in Tasks, res_id \in ResIds, checks \in BOOLEAN : call_alloc(tid, res_id, checks)
    \/ \E tid \in Tasks, res_id \in ResIds, checks \in BOOLEAN : call_dealloc(tid, res_id, checks)
    \/ \E tid \in Tasks, checks \in BOOLEAN : call_renew_maximum(tid, checks)
    \/ \E tid \in Tasks : call_release(tid)
    \/ \E res_id \in ResIds : call_is_deadlocked(res_id)

SpecDetector == Init /\ [][NextDetector]_vars

(***************************************************************************)
(* A process that works with semaphores.                                   *)
(***************************************************************************)
NextSem ==
    \/ \E t \in Tasks, res_count \in 0..MaxCount : sys_semaphore_create(t, res_count)
    \/ \E t \in Tasks, id \in 0..MaxSems : sys_semaphore_up(t, id)
    \/ \E t \in Tasks, id \in 0..MaxSems : sys_semaphore_down(t, id)
    \/ \E t \in Tasks : DownContinue(t)
    \/ \E t \in Tasks, enabled \in 0..1 : sys_enable_deadlock_detect(t, enabled)
    \/ \E t \in Tasks : Yield(t)

SpecSem == Init /\ [][NextSem]_vars

(***************************************************************************)
(* A task that maps and unmaps memory.                                     *)
(***************************************************************************)
NextMem ==
    \/ \E start \in Starts, len \in Lens, port \in Prots :
            InWindow(start, len) /\ sys_mmap(start, len, port)
    \/ \E start \in Starts, len \in Lens :
            InWindow(start, len) /\ sys_munmap(start, len)

SpecMem == Init /\ [][NextMem]_vars

(***************************************************************************)
(* The process tree under the init task.                                   *)
(***************************************************************************)
InitProc ==
    /\ task_status = [p \in Pids |-> IF p = INITPROC THEN "Running" ELSE "None"]
    /\ ready_queue = << >>
    /\ current = INITPROC
    /\ pc = [p \in Pids |-> InUser]
    /\ mutex_list = << >>
    /\ enable_deadlock_detect = FALSE
    /\ deadlocked = FALSE
    /\ panicked = FALSE
    /\ holder = << >>
    /\ track_holders = FALSE
    /\ last = Event("boot", NoTask, 0, FALSE, 0)
    /\ semaphore_list = << >>
    /\ InitMemory
    /\ InitProcess
    /\ InitFiles

NextProc ==
    \/ \E t \in Pids : sys_fork(t)
    \/ \E t \in Pids, path \in Paths : sys_spawn(t, path)
    \/ \E t \in Pids, code \in ExitCodes : sys_exit(t, code)
    \/ \E t \in Pids, pid \in {-1} \cup Pids : sys_waitpid(t, pid)
    \/ \E t \in Pids : sys_yield(t)
    \/ \E t \in Pids : Yield(t)

SpecProc == InitProc /\ [][NextProc]_vars

(***************************************************************************)
(* The tasks of the process tree also share a blocking mutex.              *)
(***************************************************************************)
NextProcSync ==
    \/ NextProc
    \/ \E t \in Pids : Len(mutex_list) < MaxMutexes - 1 /\ sys_mutex_create(t, TRUE)
    \/ \E t \in Pids, id \in 0..(MaxMutexes - 2) : sys_mutex_lock(t, id)
    \/ \E t \in Pids : LockContinue(t)
    \/ \E t \in Pids, id \in 0..(MaxMutexes - 2) : sys_mutex_unlock(t, id)

SpecProcSync == InitProc /\ [][NextProcSync]_vars

(***************************************************************************)
(* A task that works with its file descriptors.                            *)
(***************************************************************************)
Fds == 0..MaxFds

NextFd ==
    \/ \E t \in Tasks, path \in {"a", "b"}, flags \in Flags : sys_open(t, path, flags)
    \/ \E t \in Tasks, fd \in Fds : sys_close(t, fd)
    \/ \E t \in Tasks, fd \in Fds : sys_read(t, fd, 1)
    \/ \E t \in Tasks, fd \in Fds : sys_write(t, fd, 1)

SpecFd == Init /\ [][NextFd]_vars

(***************************************************************************)
(* A task that links and unlinks files.  The link count mkfs gives the     *)
(* root directory is left open.                                            *)
(***************************************************************************)
InitFs ==
    /\ task_status = [t \in Tasks |-> IF t = 1 THEN "Running" ELSE "Ready"]
    /\ ready_queue = [i \in 1..(NumTasks - 1) |-> i + 1]
    /\ current = 1
    /\ pc = [t \in Tasks |-> InUser]
    /\ mutex_list = << >>
    /\ enable_deadlock_detect = FALSE
    /\ deadlocked = FALSE
    /\ panicked = FALSE
    /\ holder = << >>
    /\ track_holders = FALSE
    /\ last = Event("boot", NoTask, 0, FALSE, 0)
    /\ semaphore_list = << >>
    /\ InitMemory
    /\ InitProcess
    /\ \E n \in RootNlinks : InitFilesWith(n)

NextFs ==
    \/ \E t \in Tasks, old_name \in NamePtrs, new_name \in NamePtrs :
            sys_linkat(t, old_name, new_name)
    \/ \E t \in Tasks, name \in Names : sys_unlinkat(t, name)

SpecFs == InitFs /\ [][NextFs]_vars

(***************************************************************************)
(* The tasks of the process tree asking for the time and for their own     *)
(* task information between their other syscalls.                          *)
(***************************************************************************)
NextInfo ==
    \/ NextProc
    \/ \E t \in Pids : sys_getpid(t)
    \/ \E t \in Pids, ts \in StructPtrs, us \in Clock : sys_get_time(t, ts, us)
    \/ \E t \in Pids, ti \in StructPtrs, us \in Clock : sys_task_info(t, ti, us)
    \/ \E t \in Pids, fd \in Fds : sys_read(t, fd, 1)
    \/ \E t \in Pids, fd \in Fds : sys_write(t, fd, 1)
    \/ \E t \in Pids, fd \in Fds, st \in StructPtrs : sys_fstat(t, fd, st)

SpecInfo == InitProc /\ [][NextInfo]_vars

(***************************************************************************)
(* The init task alone, passing structures for the kernel to fill: the     *)
(* time, its task information, the status of a file it has opened.         *)
(***************************************************************************)
NextStore ==
    \/ \E ts \in StructPtrs, us \in Clock : sys_get_time(INITPROC, ts, us)
    \/ \E ti \in StructPtrs, us \in Clock : sys_task_info(INITPROC, ti, us)
    \/ \E path \in Names : sys_open(INITPROC, path, RDONLY)
    \/ \E fd \in Fds : sys_close(INITPROC, fd)
    \/ \E fd \in Fds, st \in StructPtrs : sys_fstat(INITPROC, fd, st)

SpecStore == InitProc /\ [][NextStore]_vars

(***************************************************************************)
(* Vocabulary of the properties.                                           *)
(***************************************************************************)
MutexIds == 0..(Len(mutex_list) - 1)

\* the step is a pass through lock by thread t on mutex id, entered from
\* user mode or by the spin loop's `continue`
LockPass(t, id) ==
    /\ last'.op = "lock" /\ last'.t = t /\ last'.id = id
    /\ ~panicked'
    /\ pc[t].at # "blocked"

\* the step is a lock call that returns -0xDEAD
DeadReturn(t, id) == LockPass(t, id) /\ last'.returned /\ last'.ret = DEAD

\* the step is an unlock call that returns
UnlockStep(id) == last'.op = "unlock" /\ last'.id = id /\ last'.returned

OthersKeepStatus(t) == \A u \in Tasks \ {t} : task_status'[u] = task_status[u]

OtherMutexesKept(id) ==
    /\ Len(mutex_list') = Len(mutex_list)
    /\ \A j \in MutexIds \ {id} : mutex_list'[j + 1] = mutex_list[j + 1]

C2_ContendBlockingMutex ==
    [][\A t \in Tasks, id \in MutexIds :
        (MutexAt(id).kind = "blocking" /\ ~enable_deadlock_detect) =>
            /\ (LockPass(t, id) /\ ~MutexAt(id).locked) =>
                   /\ last'.returned /\ last'.ret = 0
                   /\ current' = t /\ task_status'[t] = "Running"
                   /\ mutex_list'[id + 1].locked
                   /\ holder'[id + 1] = t
            /\ (LockPass(t, id) /\ MutexAt(id).locked) =>
                   /\ ~last'.returned
                   /\ task_status'[t] = "Blocked"
                   /\ current' # t
                   /\ mutex_list'[id + 1].wait_queue = Append(MutexAt(id).wait_queue, t)
                   /\ pc'[t] = [at |-> "blocked", id |-> id]
            /\ (UnlockStep(id) /\ MutexAt(id).wait_queue # << >>
                    /\ t = Head(MutexAt(id).wait_queue)) =>
                   /\ mutex_list'[id + 1].locked
                   /\ task_status'[t] = "Ready"
                   /\ pc'[t] = [at |-> "blocked", id |-> id]
            /\ (pc[t] = [at |-> "blocked", id |-> id] /\ (current = t \/ pc'[t] # pc[t])) =>
                   /\ current = t /\ current' = t
                   /\ last' = Event("lock", t, id, TRUE, 0)
                   /\ mutex_list' = mutex_list
                   /\ holder'[id + 1] = t
            /\ (pc[t] = [at |-> "blocked", id |-> id] /\ task_status[t] = "Blocked"
                    /\ ~UnlockStep(id)) =>
                   /\ task_status'[t] = "Blocked"
                   /\ pc'[t] = pc[t]]_vars

\* B runs holding the mutex it was handed while A, who had it first, is queued
C2_Witness ==
    \E a, b \in Tasks, id \in MutexIds :
        /\ a # b
        /\ ~enable_deadlock_detect
        /\ MutexAt(id).kind = "blocking"
        /\ last = Event("lock", a, id, FALSE, 0)
        /\ MutexAt(id).wait_queue = << a >>
        /\ task_status[a] = "Blocked"
        /\ current = b /\ pc[b].at = "user"
        /\ holder[id + 1] = b
        /\ MutexAt(id).locked

\* C4: lock on an already-locked mutex returns -0xDEAD at once, with no yield,
\* no enqueueing and no blocking, when enable_deadlock_detect is set; when it is
\* clear the caller yields and retries (spin) or is queued and Blocked
\* (blocking).  The flag is what the latest sys_enable_deadlock_detect made it.
C4_DetectShortCircuit ==
    [][/\ \A t \in Tasks, id \in MutexIds :
            (LockPass(t, id) /\ MutexAt(id).locked) =>
                IF enable_deadlock_detect
                THEN /\ last'.returned /\ last'.ret = DEAD
                     /\ UNCHANGED << schedVars, mutex_list >>
                     /\ pc'[t].at = "user"
                ELSE /\ ~last'.returned
                     /\ IF MutexAt(id).kind = "spin"
                        THEN /\ pc'[t] = [at |-> "spin", id |-> id]
                             /\ mutex_list' = mutex_list
                             /\ IF ready_queue = << >>
                                THEN current' = t /\ ready_queue' = << >>
                                ELSE /\ current' = Head(ready_queue)
                                     /\ task_status'[t] = "Ready"
                                     /\ ready_queue' = Append(Tail(ready_queue), t)
                        ELSE /\ task_status'[t] = "Blocked"
                             /\ current' # t
                             /\ t \notin Range(ready_queue')
                             /\ pc'[t] = [at |-> "blocked", id |-> id]
                             /\ mutex_list'[id + 1].wait_queue =
                                    Append(MutexAt(id).wait_queue, t)
       /\ last'.op = "enable_deadlock_detect" =>
            enable_deadlock_detect' = (last'.id # 0)]_vars

\* a lock on a held blocking mutex has just returned -0xDEAD
C4_Witness ==
    /\ last.op = "lock" /\ last.returned /\ last.ret = DEAD
    /\ MutexAt(last.id).kind = "blocking"
    /\ MutexAt(last.id).wait_queue = << >>
    /\ task_status[last.t] = "Running"

\* C5 (as claimed): a lock call that returns -0xDEAD leaves the mutex, the
\* scheduler and every field of the process, `deadlocked` included, as they were.
C5_DeadChangesNothing ==
    [][\A t \in Tasks, id \in MutexIds :
        DeadReturn(t, id) =>
            UNCHANGED << mutex_list, schedVars, enable_deadlock_detect, deadlocked >>]_vars

\* C5 (amended): a lock call that returns -0xDEAD leaves the mutex, the
\* scheduler and enable_deadlock_detect as they were, and leaves `deadlocked`
\* set, whatever it was before.
C5_DeadSetsOnlyDeadlocked ==
    [][\A t \in Tasks, id \in MutexIds :
        DeadReturn(t, id) =>
            /\ UNCHANGED << mutex_list, schedVars, enable_deadlock_detect >>
            /\ deadlocked']_vars

\* a lock has just returned -0xDEAD and left `deadlocked` set
C5_Witness ==
    /\ last.op = "lock" /\ last.returned /\ last.ret = DEAD
    /\ deadlocked
    /\ MutexAt(last.id).locked

\* C8: lock and unlock with a mutex_id outside the table return -1, change
\* nothing and do not panic.
C8_BadMutexIdReturnsMinusOne ==
    (last.op \in {"lock", "unlock"} /\ ~MutexExists(last.id)) =>
        /\ last.returned /\ last.ret = -1
        /\ ~panicked

(***************************************************************************)
(* The reference the specification names for deadlock detection: the       *)
(* banker's safety check, each mutex one instance of a resource.  A thread *)
(* owns a mutex whose lock returned 0 to it, or that an unlock handed to   *)
(* it; it needs the mutex it waits for.                                    *)
(***************************************************************************)
Owns(u, m) ==
    \/ holder[m + 1] = u
    \/ /\ pc[u] = [at |-> "blocked", id |-> m]
       /\ u \notin Range(MutexAt(m).wait_queue)

Awaits(u, m) == pc[u].at # "user" /\ pc[u].id = m /\ ~Owns(u, m)

BankerAvailable == [m \in MutexIds |-> IF MutexAt(m).locked THEN 0 ELSE 1]

BankerAllocation == [u \in Tasks |-> [m \in MutexIds |-> IF Owns(u, m) THEN 1 ELSE 0]]

\* the needs once thread t has asked for mutex id
BankerNeed(t, id) ==
    [u \in Tasks |-> [m \in MutexIds |->
        IF Awaits(u, m) \/ (u = t /\ m = id) THEN 1 ELSE 0]]

RECURSIVE BankerFinished(_, _, _, _)
\* the threads that can run to completion, one after the other
BankerFinished(work, fin, held, need) ==
    LET can == {u \in Tasks \ fin : \A m \in DOMAIN work : need[u][m] <= work[m]}
    IN  IF can = {}
        THEN fin
        ELSE LET u == CHOOSE x \in can : TRUE
             IN  BankerFinished([m \in DOMAIN work |-> work[m] + held[u][m]],
                                fin \cup {u}, held, need)

BankerSafe(t, id) ==
    BankerFinished(BankerAvailable, {}, BankerAllocation, BankerNeed(t, id)) = Tasks

\* C3: sys_mutex_lock returns -0xDEAD only when the banker's safety check of the
\* request fails; a request for a mutex held by a thread that can still run to
\* its unlock does not return -0xDEAD.
C3_DeadOnlyWhenUnsafe ==
    [][\A t \in Tasks, id \in MutexIds :
        DeadReturn(t, id) => ~BankerSafe(t, id)]_vars

\* thread u is Blocked in the wait queue of mutex m
Waits(u, m) ==
    /\ pc[u] = [at |-> "blocked", id |-> m]
    /\ task_status[u] = "Blocked"
    /\ u \in Range(MutexAt(m).wait_queue)

\* a holds m1 and waits for m2, b holds m2 and waits for m1
Cycle(a, b, m1, m2) ==
    /\ Holds(a, m1) /\ Holds(b, m2)
    /\ Waits(a, m2) /\ Waits(b, m1)

\* C6: a holds m1, b holds m2.  With detection enabled b's request for m1
\* returns -0xDEAD.  With detection disabled, once a waits for m2, b's request
\* for m1 leaves both Blocked, and they stay Blocked for ever: whatever step
\* follows is a third thread's and leaves them as they are.
C6_TwoMutexDeadlock ==
    [][\A a, b \in Tasks, m1, m2 \in MutexIds :
        (a # b /\ m1 # m2 /\ Holds(a, m1) /\ Holds(b, m2)) =>
            /\ (enable_deadlock_detect /\ LockPass(b, m1)) =>
                   /\ last'.returned /\ last'.ret = DEAD
                   /\ task_status'[b] = "Running"
            /\ (~enable_deadlock_detect /\ Waits(a, m2) /\ LockPass(b, m1)) =>
                   Cycle(a, b, m1, m2)'
            /\ Cycle(a, b, m1, m2) =>
                   /\ last'.t \notin {a, b}
                   /\ \E u \in Tasks \ {a, b} : task_status[u] # "Blocked"
                   /\ Cycle(a, b, m1, m2)']_vars

\* the two threads are Blocked on each other's mutex
C6_Witness ==
    \E a, b \in Tasks, m1, m2 \in MutexIds :
        /\ a # b /\ m1 # m2
        /\ ~enable_deadlock_detect
        /\ Cycle(a, b, m1, m2)
        /\ current = NoTask

(***************************************************************************)
(* Semaphores and memory.                                                  *)
(***************************************************************************)
SemIds == 0..(Len(semaphore_list) - 1)

\* the step is thread t entering sys_semaphore_down(id) from user mode
DownCall(t, id) ==
    /\ last'.op = "semaphore_down" /\ last'.t = t /\ last'.id = id
    /\ pc[t].at = "user"

\* C7: sys_semaphore_down returns -0xDEAD only with deadlock detection
\* enabled, whatever the value of sem_id: on an existing semaphore the call
\* otherwise performs the down (the count drops by one, and the caller
\* either goes on with 0 or waits in the semaphore's queue).
C7_DownDeadOnlyWhenDetecting ==
    [][\A t \in Tasks, id \in SemIds :
          DownCall(t, id) =>
              /\ (last'.returned /\ last'.ret = DEAD) => enable_deadlock_detect
              /\ ~enable_deadlock_detect =>
                    /\ semaphore_list'[id + 1].count = semaphore_list[id + 1].count - 1
                    /\ IF semaphore_list[id + 1].count > 0
                       THEN last'.returned /\ last'.ret = 0
                       ELSE /\ ~last'.returned
                            /\ semaphore_list'[id + 1].wait_queue
                                   = Append(semaphore_list[id + 1].wait_queue, t)]_vars

\* bit k of a protection word
Bit(prot, k) == (prot \div (2 ^ k)) % 2 = 1

\* the pages of the page-rounded range [start, start + len)
RoundedRange(start, len) == VirtAddr_floor(start)..(VirtAddr_ceil(start + len) - 1)

Valid(vpn) == page_table.pte[vpn].valid

AddressSpace == << areas, page_table >>

\* the area mmap(start, len, prot) is to insert
ClaimedArea(start, len, prot) ==
    [l |-> VirtAddr_floor(start), r |-> VirtAddr_ceil(start + len),
     perm |-> {"U"} \cup {x \in {"R"} : Bit(prot, 0)}
                    \cup {x \in {"W"} : Bit(prot, 1)}
                    \cup {x \in {"X"} : Bit(prot, 2)}]

\* the body of the mmap contract, with the test on the free frames left open
MmapContract(start, len, prot, too_few_frames) ==
    IF \/ page_offset(start) # 0
       \/ prot % 8 = 0
       \/ prot \div 8 # 0
       \/ too_few_frames
       \/ \E v \in RoundedRange(start, len) : Valid(v)
    THEN last'.returned /\ last'.ret = -1 /\ UNCHANGED AddressSpace
    ELSE /\ last'.returned /\ last'.ret = 0
         /\ areas' = Append(areas, ClaimedArea(start, len, prot))
         /\ \A v \in RoundedRange(start, len) :
                Valid(v)' /\ page_table'.pte[v].flags = ClaimedArea(start, len, prot).perm
         /\ \A v \in VPNs \ RoundedRange(start, len) :
                page_table'.pte[v] = page_table.pte[v]

\* C9: sys_mmap returns -1 and leaves the area list and the page table alone
\* when start is unaligned, prot & 7 is 0, prot has a bit outside 7, the free
\* frames are fewer than the pages needed, or a page of the range is already
\* valid; otherwise it returns 0 and appends one area over the page-rounded
\* range with U and the R, W, X of bits 0, 1, 2.
C9_MmapContract ==
    [][\A start \in Starts, len \in Lens, prot \in Prots :
          InWindow(start, len) /\ sys_mmap(start, len, prot) =>
              MmapContract(start, len, prot,
                           FreeFrames(frame_allocator) < num_pages_of(len))]_vars

\* what the code does instead: free frames equal to the pages needed are
\* too few as well
C9_AsCoded ==
    [][\A start \in Starts, len \in Lens, prot \in Prots :
          InWindow(start, len) /\ sys_mmap(start, len, prot) =>
              MmapContract(start, len, prot,
                           FreeFrames(frame_allocator) <= num_pages_of(len))]_vars

\* some area has exactly the endpoints of the page-rounded range
ExactArea(start, len) ==
    \E i \in 1..Len(areas) :
        areas[i].l = VirtAddr_floor(start) /\ areas[i].r = VirtAddr_ceil(start + len)

\* the first area with these endpoints is gone, the others stay in order
FirstExactAreaRemoved(start, len) ==
    \E i \in 1..Len(areas) :
        /\ areas[i].l = VirtAddr_floor(start) /\ areas[i].r = VirtAddr_ceil(start + len)
        /\ \A j \in 1..(i - 1) :
               ~(areas[j].l = areas[i].l /\ areas[j].r = areas[i].r)
        /\ areas' = [k \in 1..(Len(areas) - 1) |-> IF k < i THEN areas[k] ELSE areas[k + 1]]

\* sys_munmap(start, len) alone: 0 only on an area with exactly the
\* endpoints of the page-rounded range, which is removed and unmapped and
\* whose frames go back to the allocator; else -1 and nothing changes
MunmapContract(start, len) ==
    /\ last'.returned /\ last'.ret \in {0, -1}
    /\ last'.ret = 0 =>
          /\ ExactArea(start, len)
          /\ FirstExactAreaRemoved(start, len)
          /\ \A v \in RoundedRange(start, len) : ~Valid(v)'
          /\ \A v \in VPNs \ RoundedRange(start, len) :
                page_table'.pte[v] = page_table.pte[v]
          /\ FreeFrames(frame_allocator)'
                = FreeFrames(frame_allocator) + num_pages_of(len)
    /\ last'.ret = -1 => UNCHANGED << areas, page_table, frame_allocator >>

\* the step is a sys_mmap that returned 0 / a sys_munmap that returned 0
MmapOk(start, len, prot) ==
    /\ last'.op = "mmap" /\ last'.ret = 0 /\ ~panicked'
    /\ InWindow(start, len) /\ sys_mmap(start, len, prot)

MunmapStep(start, len) ==
    /\ last'.op = "munmap"
    /\ InWindow(start, len) /\ sys_munmap(start, len)

\* C10 as stated: sys_munmap returns 0 only on an area with exactly the
\* endpoints of the page-rounded range, removing and unmapping it, and
\* otherwise returns -1 and changes nothing; after a successful
\* mmap(start, len, prot), munmap(start, len2) with any other length
\* returns -1 and munmap(start, len) returns 0, and after that a second
\* munmap(start, len) returns -1.
C10_MunmapExactLength ==
    [][/\ \A start \in Starts, len \in Lens :
              MunmapStep(start, len) =>
                  /\ MunmapContract(start, len)
                  /\ last'.ret = 0 => munmap_check(start, len)' = -1
       /\ \A start \in Starts, len \in Lens, prot \in Prots :
              MmapOk(start, len, prot) =>
                  /\ munmap_check(start, len)' = 0
                  /\ \A len2 \in Lens \ {len} :
                         InWindow(start, len2) => munmap_check(start, len2)' = -1]_vars

\* C10 as the code has it: the lengths are compared by the pages they round
\* to, and an area of no pages stands in nobody's way.  After a successful
\* mmap(start, len, prot) of at least one page, munmap(start, len2) returns 0
\* for every len2 of as many pages and -1 for every len2 of another,
\* non-zero number of pages; after a munmap of at least one page returned 0,
\* a second munmap(start, len) returns -1.
C10_MunmapExactPages ==
    [][/\ \A start \in Starts, len \in Lens :
              MunmapStep(start, len) =>
                  /\ MunmapContract(start, len)
                  /\ (last'.ret = 0 /\ num_pages_of(len) > 0)
                        => munmap_check(start, len)' = -1
       /\ \A start \in Starts, len \in Lens, prot \in Prots :
              (MmapOk(start, len, prot) /\ num_pages_of(len) > 0) =>
                  \A len2 \in Lens :
                      (InWindow(start, len2) /\ num_pages_of(len2) > 0) =>
                          munmap_check(start, len2)'
                              = IF num_pages_of(len2) = num_pages_of(len) THEN 0 ELSE -1]_vars

\* a munmap has just returned 0 and handed frames back, a mapping is left
C10_Witness ==
    /\ last.op = "munmap" /\ last.returned /\ last.ret = 0
    /\ frame_allocator.recycled # << >>
    /\ areas # << >>

(***************************************************************************)
(* Processes.                                                              *)
(***************************************************************************)
\* the step is task t's call of the syscall op with argument id
ProcCall(op, t, id) == last'.op = op /\ last'.t = t /\ last'.id = id

\* the children of t that waitpid(pid) asks about, and the exited ones
Matching(t, pid) == {i \in 1..Len(children[t]) : pid = -1 \/ children[t][i] = pid}

MatchingZombies(t, pid) ==
    {i \in Matching(t, pid) : task_status[children[t][i]] = "Zombie"}

\* C11: sys_waitpid(pid, ptr) returns -1 with the children list unchanged
\* when no child matches pid (-1 matches every child), -2 with the list
\* unchanged when a child matches but no matching child is a Zombie, and
\* otherwise removes exactly one matching Zombie child from the list, stores
\* its exit code through ptr and returns its pid.
C11_Waitpid ==
    [][\A t \in Pids, pid \in {-1} \cup Pids :
          ProcCall("waitpid", t, pid) =>
              /\ last'.returned
              /\ IF Matching(t, pid) = {}
                 THEN last'.ret = -1 /\ children' = children /\ user_out' = user_out
                 ELSE IF MatchingZombies(t, pid) = {}
                 THEN last'.ret = -2 /\ children' = children /\ user_out' = user_out
                 ELSE \E i \in MatchingZombies(t, pid) :
                        /\ children' = [children EXCEPT ![t] = RemoveAt(@, i)]
                        /\ user_out' = [op |-> "waitpid", val |-> exit_code[children[t][i]]]
                        /\ last'.ret = children[t][i]]_vars

\* a waitpid has just collected a child that exited with 42
C11_Witness ==
    /\ last.op = "waitpid" /\ last.returned /\ last.ret > 0
    /\ user_out = [op |-> "waitpid", val |-> 42]
    /\ last.ret \notin Range(children[last.t])

\* C12: sys_fork returns the child's pid, which is > 0, to the parent; the
\* child's saved x[10] is 0 and the child is at the tail of the ready queue
\* and of the parent's children list.  exit(c) makes the caller a Zombie with
\* exit code c, which it keeps, and the parent's waitpid(child pid, &code)
\* on a child that has exited returns the child's pid with code its exit code.
C12_ForkExitWait ==
    [][/\ \A t \in Pids :
              ProcCall("fork", t, 0) =>
                  /\ last'.returned /\ last'.ret > 0 /\ trap_x10'[t] = last'.ret
                  /\ last'.ret \in Pids \ LiveTasks
                  /\ trap_x10'[last'.ret] = 0
                  /\ task_status'[last'.ret] = "Ready"
                  /\ ready_queue' = Append(ready_queue, last'.ret)
                  /\ children' = [children EXCEPT ![t] = Append(@, last'.ret)]
                  /\ parent'[last'.ret] = t
       /\ \A t \in Pids, c \in ExitCodes :
              ProcCall("exit", t, c) =>
                  task_status'[t] = "Zombie" /\ exit_code'[t] = c
       /\ \A p \in Pids :
              (task_status[p] = "Zombie" /\ task_status'[p] = "Zombie") =>
                  exit_code'[p] = exit_code[p]
       /\ \A t \in Pids, pid \in Pids :
              (/\ ProcCall("waitpid", t, pid)
               /\ pid \in Range(children[t])
               /\ task_status[pid] = "Zombie") =>
                  /\ last'.returned /\ last'.ret = pid
                  /\ user_out' = [op |-> "waitpid", val |-> exit_code[pid]]]_vars

\* a fork has just returned: the parent, whose x[10] is not 0, sees the
\* child's pid, the child waits in the ready queue with x[10] = 0
C12_Witness ==
    /\ last.op = "fork" /\ last.returned /\ last.ret > 0
    /\ trap_x10[last.t] = last.ret
    /\ trap_x10[last.ret] = 0
    /\ last.ret \in Range(ready_queue)
    /\ last.ret \in Range(children[last.t])

\* C13: sys_spawn(path) returns -1, creating no task and leaving the ready
\* queue and the children lists alone, only when no image is named path;
\* otherwise it creates one task from the image with the caller as parent,
\* appends it once to the caller's children and once to the ready queue and
\* returns its pid.
C13_Spawn ==
    [][\A t \in Pids, path \in Paths :
          ProcCall("spawn", t, path) =>
              /\ last'.returned
              /\ IF path \notin Apps
                 THEN /\ last'.ret = -1
                      /\ UNCHANGED << task_status, ready_queue, children, parent >>
                 ELSE /\ last'.ret \in Pids \ LiveTasks
                      /\ LiveTasks' = LiveTasks \cup {last'.ret}
                      /\ parent' = [parent EXCEPT ![last'.ret] = t]
                      /\ children' = [children EXCEPT ![t] = Append(@, last'.ret)]
                      /\ ready_queue' = Append(ready_queue, last'.ret)]_vars

\* a spawn has just created a task
C13_Witness ==
    /\ last.op = "spawn" /\ last.returned /\ last.ret > 0
    /\ parent[last.ret] = last.t
    /\ task_status[last.ret] = "Ready"

\* a file syscall has just returned to task t
FsCall(op, t, id) == last'.op = op /\ last'.t = t /\ last'.id = id

\* descriptor fd of task t names no handle
NoHandle(t, fd) == fd >= Len(fd_table[t]) \/ Slot(fd_table[t], fd) = NoFile

\* C16: sys_close(fd) returns -1 and leaves the descriptor table alone when
\* fd is out of range or its slot is empty, and otherwise empties that slot
\* and returns 0; sys_read and sys_write never change the table and return
\* -1 when fd is out of range, its slot is empty or the handle lacks the
\* capability; an empty slot stays empty until an open returns that fd.
C16_FdTable ==
    [][\A t \in {last'.t} \cap Tasks, fd \in Fds :
          /\ FsCall("close", t, fd) =>
                 IF NoHandle(t, fd)
                 THEN last'.ret = -1 /\ fd_table' = fd_table
                 ELSE /\ last'.ret = 0
                      /\ fd_table' = [fd_table EXCEPT ![t][fd + 1] = NoFile]
          /\ FsCall("read", t, << fd, 1 >>) =>
                 /\ fd_table' = fd_table
                 /\ (NoHandle(t, fd) \/ ~Slot(fd_table[t], fd).readable) => last'.ret = -1
          /\ FsCall("write", t, << fd, 1 >>) =>
                 /\ fd_table' = fd_table
                 /\ (NoHandle(t, fd) \/ ~Slot(fd_table[t], fd).writable) => last'.ret = -1
          /\ (fd < Len(fd_table[t]) /\ Slot(fd_table[t], fd) = NoFile
                 /\ ~(last'.op = "open" /\ last'.t = t /\ last'.ret = fd)) =>
                 (fd < Len(fd_table'[t]) /\ Slot(fd_table'[t], fd) = NoFile)]_vars

\* a read on a descriptor that was closed has just returned -1
C16_Witness ==
    /\ last.op = "read" /\ last.ret = -1
    /\ last.id[1] < Len(fd_table[last.t])
    /\ Slot(fd_table[last.t], last.id[1]) = NoFile

\* the inode a name resolves to in a directory, as a lookup finds it
Resolves(dir, name) == \E i \in 1..Len(dir) : dir[i].name = name

ResolvedInode(dir, name) ==
    dir[CHOOSE i \in 1..Len(dir) :
            /\ dir[i].name = name
            /\ \A j \in 1..(i - 1) : dir[j].name # name].inode_id

\* what fstat reports as the link count of an inode
StatNlink(ino, id) == ino[id].nlink_num

\* C17: a sys_linkat(old, new) that returns 0 raises the link count of the
\* inode old resolves to by exactly 1, touches no other inode, appends the
\* one entry (new, that inode) to the root directory, and afterwards new and
\* old resolve to that same inode, whose reported link count is one higher;
\* when old does not resolve the call returns -1 and changes neither the
\* directory nor any link count.
C17_Linkat ==
    [][\A t \in Tasks, old \in NamePtrs, new \in NamePtrs :
          FsCall("linkat", t, << old, new >>) =>
              IF ~Resolves(root_dir, old.name)
              THEN last'.ret = -1 /\ UNCHANGED << root_dir, inodes >>
              ELSE last'.ret = 0 =>
                     LET id == ResolvedInode(root_dir, old.name)
                     IN  /\ inodes' = [inodes EXCEPT ![id].nlink_num = @ + 1]
                         /\ root_dir' = Append(root_dir, [name |-> new.name,
                                                          inode_id |-> id])
                         /\ Resolves(root_dir', new.name)
                         /\ ResolvedInode(root_dir', new.name) = id
                         /\ ResolvedInode(root_dir', old.name) = id
                         /\ StatNlink(inodes', id) = StatNlink(inodes, id) + 1]_vars

\* the part of C17 the code keeps: the link count, the appended entry, and
\* the refusal when old does not resolve
C17_AsCoded ==
    [][\A t \in Tasks, old \in NamePtrs, new \in NamePtrs :
          FsCall("linkat", t, << old, new >>) =>
              IF ~Resolves(root_dir, old.name)
              THEN last'.ret = -1 /\ UNCHANGED << root_dir, inodes >>
              ELSE last'.ret = 0 =>
                     LET id == ResolvedInode(root_dir, old.name)
                     IN  /\ inodes' = [inodes EXCEPT ![id].nlink_num = @ + 1]
                         /\ root_dir' = Append(root_dir, [name |-> new.name,
                                                          inode_id |-> id])
                         /\ ResolvedInode(root_dir', old.name) = id
                         /\ (~Resolves(root_dir, new.name) =>
                                ResolvedInode(root_dir', new.name) = id)]_vars

\* C18: when linkat(a, b), with a and b different names, a resolving and b
\* not, has returned 0 and unlinkat(a) is the next call, then afterwards b
\* resolves to the inode a resolved to, that inode's link count is what it
\* was before the linkat, its data is still there, and a does not resolve.
C18_LinkUnlinkRoundTrip ==
    [][\A t \in Tasks, a \in NamePtrs, b \in NamePtrs :
          (/\ last.op = "linkat" /\ last.t = t /\ last.ret = 0
           /\ last.id = << a, b >>
           /\ a.name # b.name
           /\ \A i \in 1..(Len(root_dir) - 1) : root_dir[i].name # b.name
           /\ FsCall("unlinkat", t, a.name)) =>
              LET id == ResolvedInode(root_dir, a.name)
              IN  /\ last'.returned
                  /\ Resolves(root_dir', b.name)
                  /\ ResolvedInode(root_dir', b.name) = id
                  /\ inodes'[id].nlink_num = inodes[id].nlink_num - 1
                  /\ inodes'[id].size = inodes[id].size
                  /\ ~Resolves(root_dir', a.name)]_vars

\* C19: sys_unlinkat(name) for a name that resolves leaves the root
\* directory without that name and with every other entry in its place,
\* lowers the link count of the inode the name resolved to by exactly 1,
\* frees that inode's data exactly when the count has reached 0, and touches
\* no other inode.
C19_Unlinkat ==
    [][\A t \in Tasks, name \in Names :
          (FsCall("unlinkat", t, name) /\ Resolves(root_dir, name)) =>
              LET id == ResolvedInode(root_dir, name)
              IN  /\ last'.returned /\ last'.ret = 0
                  /\ root_dir' = SelectSeq(root_dir, LAMBDA d : d.name # name)
                  /\ inodes'[id].nlink_num = inodes[id].nlink_num - 1
                  /\ inodes'[id].size = IF inodes'[id].nlink_num = 0
                                        THEN 0 ELSE inodes[id].size
                  /\ \A j \in InodeIds \ {id} : inodes'[j] = inodes[j]]_vars

\* C20: sys_unlinkat of a name without an entry returns -1 and leaves the
\* root directory and every inode, the root directory's included, as they
\* were.
C20_UnlinkatMissing ==
    [][\A t \in Tasks, name \in Names :
          (FsCall("unlinkat", t, name) /\ ~Resolves(root_dir, name)) =>
              /\ last'.returned /\ last'.ret = -1
              /\ UNCHANGED << root_dir, inodes >>]_vars

\* the numbers of the system-call table
TableNumbers == {63, 64, 93, 124, 140, 169, 172, 214, 215, 220, 221, 222, 260, 400, 410}

\* the step is task t invoking the syscall the table lists under number n
Invokes(t, n) ==
    CASE n = 63 -> \E fd \in Fds : sys_read(t, fd, 1)
      [] n = 64 -> \E fd \in Fds : sys_write(t, fd, 1)
      [] n = 93 -> \E code \in ExitCodes : sys_exit(t, code)
      [] n = 124 -> sys_yield(t)
      [] n = 169 -> \E ts \in StructPtrs, us \in Clock : sys_get_time(t, ts, us)
      [] n = 172 -> sys_getpid(t)
      [] n = 220 -> \E path \in Paths : sys_spawn(t, path)
      [] n = 260 -> \E pid \in {-1} \cup Pids : sys_waitpid(t, pid)
      [] n = 400 -> \E fd \in Fds, st \in StructPtrs : sys_fstat(t, fd, st)
      [] n = 410 -> \E ti \in StructPtrs, us \in Clock : sys_task_info(t, ti, us)
      [] OTHER -> FALSE

\* what sys_task_info would write as syscall_times from a task's counters
WouldReport(times) == TaskInfo("Running", times, 0).syscall_times

\* C14: the entry sys_task_info writes for a number of the system-call table
\* is the number of times the task has invoked that syscall, failed calls
\* and the current call included, and every other entry is 0.  Stated step
\* by step: an invocation of syscall n by task t raises what task_info
\* would report to t for n by one and leaves what it would report for the
\* other numbers; a task_info call writes exactly that report.
C14_TaskInfoCounts ==
    [][\A t \in Pids, n \in TableNumbers :
          Invokes(t, n) =>
              /\ \A m \in TableNumbers :
                     WouldReport(syscall_times'[t])[m] =
                         WouldReport(syscall_times[t])[m] + (IF m = n THEN 1 ELSE 0)
              /\ (n = 410 /\ last'.returned) =>
                     /\ user_out'.val.syscall_times = WouldReport(syscall_times'[t])
                     /\ \A m \in 0..(MAX_SYSCALL_NUM - 1) \ TableNumbers :
                            user_out'.val.syscall_times[m] = 0]_vars

\* the counters the code does keep: each syscall of process.rs raises its
\* own counter by one and no other, and task_info copies the counters out
C14_AsCoded ==
    [][\A t \in Pids, n \in TableNumbers \ {63, 64, 220, 400} :
          Invokes(t, n) =>
              /\ \A m \in TableNumbers :
                     WouldReport(syscall_times'[t])[m] =
                         WouldReport(syscall_times[t])[m] + (IF m = n THEN 1 ELSE 0)
              /\ (n = 410 /\ last'.returned) =>
                     user_out'.val.syscall_times = WouldReport(syscall_times'[t])]_vars

\* the structure a store covers reaches into a second page
Straddles(ptr, size) == VirtAddr_floor(ptr) # VirtAddr_floor(ptr + size - 1)

\* the physical address the page table gives a mapped virtual address
MappedPA(va) == page_table.pte[VirtAddr_floor(va)].ppn * PAGE_SIZE + page_offset(va)

IsMapped(vpn) == translate(page_table, vpn).some /\ translate(page_table, vpn).pte.valid

\* the frames mapped for the task
UserFrames == {page_table.pte[v].ppn : v \in {u \in DOMAIN page_table.pte : IsMapped(u)}}

\* the step is a call that stores a structure and returns 0
Stores(t) ==
    \/ \E ts \in StructPtrs, us \in Clock : sys_get_time(t, ts, us)
    \/ \E ti \in StructPtrs, us \in Clock : sys_task_info(t, ti, us)
    \/ \E fd \in Fds, st \in StructPtrs : sys_fstat(t, fd, st) /\ last'.ret = 0

\* C15: when the structure sys_get_time, sys_task_info or sys_fstat stores
\* straddles two mapped pages whose frames are not adjacent, every byte is
\* stored at the physical address the page table gives its virtual
\* address, and none in a frame that is not the task's.
C15_StraddlingStore ==
    [][(/\ Stores(INITPROC)
        /\ last'.returned
        /\ Straddles(user_out'.ptr, user_out'.size)
        /\ IsMapped(VirtAddr_floor(user_out'.ptr))
        /\ IsMapped(VirtAddr_floor(user_out'.ptr) + 1)
        /\ MappedPA(user_out'.ptr + user_out'.size - 1) \div PAGE_SIZE
               # MappedPA(user_out'.ptr) \div PAGE_SIZE + 1) =>
          \A i \in 0..(user_out'.size - 1) :
              /\ user_out'.pa + i = MappedPA(user_out'.ptr + i)
              /\ (user_out'.pa + i) \div PAGE_SIZE \in UserFrames]_vars

(***************************************************************************)
(* The wait queue of a blocking mutex.                                     *)
(***************************************************************************)
\* the position of thread t in the queue q, 0 when it is not there
PosIn(q, t) == IF \E i \in 1..Len(q) : q[i] = t
               THEN CHOOSE i \in 1..Len(q) : q[i] = t
               ELSE 0

\* the threads inside lock(m): woken or not, their call has not returned
InsideLock(m) == { t \in DOMAIN pc : pc[t].at = "blocked" /\ pc[t].id = m }

\* the threads an unlock of m has woken and whose lock has not returned yet
WokenPending(m) == { t \in InsideLock(m) : PosIn(MutexAt(m).wait_queue, t) = 0 }

BlockingIds == { m \in 0..(Len(mutex_list) - 1) : MutexAt(m).kind = "blocking" }

C27_WaitQueue ==
    \A m \in BlockingIds :
        LET q == MutexAt(m).wait_queue
        IN  /\ Len(q) <= Cardinality(InsideLock(m))
            /\ Range(q) \subseteq InsideLock(m)
            /\ \A i, j \in 1..Len(q) : q[i] = q[j] => i = j
            /\ (last.op = "lock" /\ last.id = m /\ last.returned /\ last.ret = DEAD)
                   => last.t \notin Range(q)

\* a lock has returned -0xDEAD while another thread waits for the mutex
C27_Witness ==
    /\ last.op = "lock" /\ last.returned /\ last.ret = DEAD
    /\ last.id \in BlockingIds
    /\ MutexAt(last.id).wait_queue # << >>
    /\ Cardinality(InsideLock(last.id)) >= 1

\* C28: when unlock is called only by the holder, a mutex of either kind
\* has at most one holder: a lock returns 0 only when no thread holds the
\* mutex, that is when every earlier lock that returned 0 has been followed
\* by its thread's unlock, and the mutex is then locked for the caller; and
\* a blocking mutex is locked whenever its wait queue is not empty.
C28_MutualExclusion ==
    [][/\ (last'.op = "lock" /\ last'.returned /\ last'.ret = 0)
            => /\ holder[last'.id + 1] = NoTask
               /\ holder'[last'.id + 1] = last'.t
               /\ mutex_list'[last'.id + 1].locked
       /\ \A m \in 1..Len(mutex_list') :
            (mutex_list'[m].kind = "blocking" /\ mutex_list'[m].wait_queue # << >>)
                => mutex_list'[m].locked
    ]_vars

\* a woken waiter has got a blocking mutex from its holder while a third
\* thread waits for it
C28_Witness ==
    /\ last.op = "lock" /\ last.returned /\ last.ret = 0
    /\ last.id \in BlockingIds
    /\ MutexAt(last.id).wait_queue # << >>
    /\ Holds(last.t, last.id)

(***************************************************************************)
(* The address space after mmap and munmap.                                *)
(***************************************************************************)
\* the area the loader pushed for the data pages of the image; `areas`
\* holds the areas pushed after it
LoaderAreas == << [l |-> DataBase, r |-> DataBase + 2, perm |-> {"R", "W", "U"}] >>

MemorySet_areas == LoaderAreas \o areas

VPNRange(a) == a.l..(a.r - 1)

\* the pages with a valid entry that user mode may use
ValidUserVPNs ==
    { v \in DOMAIN page_table.pte :
        /\ translate(page_table, v).some
        /\ translate(page_table, v).pte.valid
        /\ "U" \in translate(page_table, v).pte.flags }

entries_of(dir, id) == { k \in 1..Len(dir) : dir[k].inode_id = id }

\* C29: after any sequence of sys_linkat and sys_unlinkat calls the link
\* count of every file inode is the number of root-directory entries with
\* that inode's id, and it has not wrapped below 0.
C29_LinkCount ==
    \A id \in InodeIds \ {ROOT} :
        inodes[id].used =>
            /\ inodes[id].nlink_num = Cardinality(entries_of(root_dir, id))
            /\ inodes[id].nlink_num >= 0

(***************************************************************************)
(* The assertion of sys_waitpid.                                           *)
(***************************************************************************)
\* the child a sys_waitpid(pid) of t would take out of t's list
wait_child(t, pid) ==
    children[t][CHOOSE i \in wait_found(t, pid) : \A j \in wait_found(t, pid) : i <= j]

\* C30: the assertion of sys_waitpid never fails.  Whenever a waitpid takes
\* a Zombie child out of the caller's list, the child, made by fork or by
\* spawn, is in no other list of children, not in the ready queue, not the
\* current task and in no wait queue of a mutex, so that the call returns
\* the child's pid without a panic.
C30_WaitpidAssertion ==
    [][LET t == last'.t
           pid == last'.id
       IN (last'.op = "waitpid" /\ t \in Pids /\ wait_found(t, pid) # {}) =>
              LET child == wait_child(t, pid)
              IN  /\ task_status[child] = "Zombie"
                  /\ SumTo([p \in Pids |-> Occurrences(children[p], child)],
                           MaxProcs - 1) = 1
                  /\ Occurrences(ready_queue, child) = 0
                  /\ current # child
                  /\ \A m \in 1..Len(mutex_list) :
                         Occurrences(mutex_list[m].wait_queue, child) = 0
                  /\ ~panicked'
                  /\ last'.returned /\ last'.ret = child]_vars

\* a spawned child has been reaped while a mutex is locked
C30_Witness ==
    /\ last.op = "waitpid" /\ last.returned /\ last.ret > 0
    /\ syscall_times[last.t][13] > 0
    /\ \E m \in 1..Len(mutex_list) : mutex_list[m].locked

\* a forked child has been reaped
C30_WitnessFork ==
    /\ last.op = "waitpid" /\ last.returned /\ last.ret > 0
    /\ syscall_times[last.t][9] > 0

(***************************************************************************)
(* The matrices of the detector.                                           *)
(***************************************************************************)
\* the rows of the threads the detector knows: find's indexes
ThreadRows(ra) == 0..(Len(ra.tid_list) - 1)

ResourceTypes(ra) == 0..(resources_types_num(ra) - 1)

\* every thread has a row with an entry for every resource type
RowsComplete(ra) ==
    \A i \in ThreadRows(ra) :
        /\ InBounds(ra.allocation, i) /\ InBounds(ra.need, i)
        /\ Len(ra.allocation[i + 1]) = resources_types_num(ra)
        /\ Len(ra.need[i + 1]) = resources_types_num(ra)

\* the sum over the thread rows of allocation[t][r]
RECURSIVE AllocatedTo(_, _, _)
AllocatedTo(ra, i, r) ==
    IF i < 0 THEN 0 ELSE ra.allocation[i + 1][r + 1] + AllocatedTo(ra, i - 1, r)

\* allocation[t][r] <= maximum[r], and the allocations of r and available[r]
\* add up to maximum[r]
MatricesBalanced(ra) ==
    /\ RowsComplete(ra)
    /\ \A r \in ResourceTypes(ra) :
          /\ \A i \in ThreadRows(ra) : ra.allocation[i + 1][r + 1] <= ra.maximum[r + 1]
          /\ AllocatedTo(ra, Len(ra.tid_list) - 1, r) + ra.available[r + 1]
                = ra.maximum[r + 1]

\* the call of the latest step is one the detector was made for: a new
\* thread id, or a thread and a resource type it knows
KnownCall(ra, ev) ==
    \/ ev.op = "add_res_type"
    \/ ev.op = "addthread" /\ find(ra, ev.id[1]) = -1
    \/ ev.op \in {"renew_maximum", "release"} /\ find(ra, ev.id[1]) # -1
    \/ /\ ev.op \in {"alloc", "dealloc"}
       /\ find(ra, ev.id[1]) # -1
       /\ ev.id[2] \in ResourceTypes(ra)

\* C23: add_res_type, addthread, alloc, dealloc, renew_maximum and release,
\* in any sequence, each complete and leave the matrices balanced: for every
\* resource r, allocation[t][r] <= maximum[r] in every thread row t, and the
\* sum over t of allocation[t][r] plus available[r] is maximum[r].
C23_MatricesBalanced ==
    [][KnownCall(detector, last') => (~panicked' /\ MatricesBalanced(detector'))]_vars

\* C24: a successful sys_mutex_create adds one resource type with
\* available = maximum = 1 to the detector, a successful
\* sys_semaphore_create(res_count) one with available = maximum = res_count,
\* and the number of resource types is the number of mutexes and semaphores
\* created.
C24_CreateAddsResourceType ==
    [][/\ (last'.op \in {"mutex_create", "semaphore_create"} /\ last'.returned) =>
            LET count == IF last'.op = "mutex_create" THEN 1
                         ELSE semaphore_list'[Len(semaphore_list')].count
            IN  /\ detector'.available = Append(detector.available, count)
                /\ detector'.maximum = Append(detector.maximum, count)
       /\ resources_types_num(detector') = Len(mutex_list') + Len(semaphore_list')
    ]_vars

\* C25: from ResourceAllocation::new() and after any add_res_type and
\* addthread calls, addthread(tid) completes without an out-of-bounds
\* access, and at i = find(tid) the rows allocation[i] and need[i] have one
\* entry per resource type, all zero, and finish[i] is false.
C25_Addthread ==
    [][last'.op = "addthread" =>
          LET i == find(detector', last'.id[1])
              n == resources_types_num(detector')
          IN  /\ ~panicked' /\ last'.returned
              /\ InBounds(detector'.allocation, i) /\ InBounds(detector'.need, i)
              /\ detector'.allocation[i + 1] = [k \in 1..n |-> 0]
              /\ detector'.need[i + 1] = [k \in 1..n |-> 0]
              /\ InBounds(detector'.finish, i)
              /\ detector'.finish[i + 1] = FALSE]_vars

\* the reference safety algorithm: the thread rows that can finish one
\* after the other, each from available plus what the earlier ones held
RECURSIVE CanFinish(_, _, _)
CanFinish(ra, work, fin) ==
    LET can == { i \in ThreadRows(ra) \ fin :
                   \A r \in ResourceTypes(ra) : ra.need[i + 1][r + 1] <= work[r + 1] }
    IN  IF can = {} THEN fin
        ELSE LET i == CHOOSE x \in can : TRUE
             IN  CanFinish(ra, [k \in 1..Len(work) |-> work[k] + ra.allocation[i + 1][k]],
                           fin \cup {i})

SafeOrderExists(ra) == CanFinish(ra, ra.available, {}) = ThreadRows(ra)

\* C26: is_deadlocked answers false exactly when the reference safety
\* algorithm finds an order in which every thread can finish.
C26_IsDeadlockedIsBankers ==
    [][(last'.op = "is_deadlocked" /\ last'.returned /\ RowsComplete(detector)) =>
          ((last'.ret = 0) <=> SafeOrderExists(detector))]_vars

====
